---- MODULE Spec2Model ----
(***************************************************************************)
(* MoltFocus planning engine: the file-backed workspace (checkin draft,    *)
(* state.json, reflections.md, tasks.yaml, analytics.json,                 *)
(* agent_context.json, plan.md / plan_prev.md) and the operations on it.   *)
(*                                                                         *)
(* Conventions                                                             *)
(*  - a calendar date is a day ordinal (1, 2, ...); day 1 is a Monday, so  *)
(*    ISO-string order and date arithmetic are integer order and           *)
(*    subtraction.  NoDate stands for a null / missing date.               *)
(*  - text that the code inspects character by character (reflection,     *)
(*    plan, task titles) is a sequence of one-character strings.           *)
(*  - hour quantities of tasks are held in minutes (hours * 60).           *)
(*  - today_str() and now_local().date() of one call are the same day.     *)
(***************************************************************************)
EXTENDS Integers, Sequences, FiniteSets, TLC

\* ---------------------------------------------------------------- bounds
FirstDay == 8         \* the first calendar day of a run (a Monday)
NumDays == 3          \* calendar days of the daily loop
NumDaysFault == 2     \* calendar days of the runs with crashes and failures
NumDaysTui == 2       \* calendar days of the runs with a TUI session
NumDaysLong == 32     \* calendar days of the long-run specification
NumDaysStreak == 5    \* calendar days of the streak specification
MaxSkips == 1         \* days without a finalization in the long run
MaxCrashes == 1       \* interrupted finalize_day calls in one run
MaxTasks == 4         \* active tasks the task API lets the list grow to
MaxArchived == 1      \* archived tasks the task API lets the list grow to
MaxClock == 60        \* seconds of wall clock a run of the focus timer covers
MaxSessions == 2      \* focus sessions started in one run
MaxInterruptions == 1 \* interruptions recorded on one session
MaxRatedItems == 5 \* items of a rated check-in
BufferSize == 1 \* characters one write call puts into a file
MaxFinalizations == 2  \* finalizations of one day through the TUI
MaxHooks == 2 \* hooks configured for one hook point
MaxWeekMinutes == 120 \* hours_this_week, in minutes, up to which progress is logged

\* ------------------------------------------------------ program constants
HistoryCap == 30
ReflectionMin == 30
FallbackMinutes == 30

\* null / missing values: of a date, of a number, of a string
NoDate == 0
NoNum == -1
None == "none"

\* date.weekday(): 0 = Monday
Weekday(d) == (d - 1) % 7

Max(a, b) == IF a >= b THEN a ELSE b
Min(a, b) == IF a <= b THEN a ELSE b

\* ------------------------------------------------------------------ text
Rep(c, n) == [i \in 1..n |-> c]

IsSpace(c) == c \in {" ", "\n"}

RECURSIVE LStrip(_)
LStrip(s) == IF s # <<>> /\ IsSpace(Head(s)) THEN LStrip(Tail(s)) ELSE s

RECURSIVE RStrip(_)
RStrip(s) ==
  IF s # <<>> /\ IsSpace(s[Len(s)]) THEN RStrip(SubSeq(s, 1, Len(s) - 1)) ELSE s

\* str.strip()
Strip(s) == RStrip(LStrip(s))

\* str.lower() on the letters that occur in the model's titles
LowerChar(c) ==
  CASE c = "P" -> "p"
    [] c = "M" -> "m"
    [] c = "W" -> "w"
    [] OTHER -> c

Lower(s) == [i \in 1..Len(s) |-> LowerChar(s[i])]

\* a.startswith(b)
StartsWith(a, b) == Len(b) <= Len(a) /\ SubSeq(a, 1, Len(b)) = b

\* the separator "---\n\n" that prepend_reflection looks for
Marker == <<"-", "-", "-", "\n", "\n">>

\* marker in s  (substring test)
Contains(s, m) ==
  \E i \in 1..(Len(s) - Len(m) + 1) : SubSeq(s, i, i + Len(m) - 1) = m

\* ---------------------------------------------------------------- labels
\* A checkin label "<title>[: <detail>][ <amount><unit>]".
LPaper == [title |-> <<"P", "a", "p", "e", "r">>, detail |-> "write",
           amount |-> 2, unit |-> "h"]
LMaint == [title |-> <<"M", "a", "i", "n", "t">>, detail |-> "",
           amount |-> 0, unit |-> ""]
LWeekly == [title |-> <<"W", "o", "r", "k">>, detail |-> "review",
            amount |-> 90, unit |-> "m"]
LOther == [title |-> <<"z", "z">>, detail |-> "", amount |-> 0, unit |-> ""]

\* parse_duration_from_label: minutes of the trailing "<n>h" / "<n>m", else 0
parse_duration_from_label(label) ==
  IF label.unit = "h" THEN label.amount * 60
  ELSE IF label.unit = "m" THEN label.amount
  ELSE 0

\* parse_task_title_from_label: the label without its trailing duration,
\* cut at the first colon
parse_task_title_from_label(label) == label.title

\* ----------------------------------------------------------------- tasks
\* core.models.Task; *_hours fields are in minutes, NoNum is None
Task(id, title, type, priority, remaining, target, week, est) ==
  [id |-> id, title |-> title, type |-> type, priority |-> priority,
   status |-> "active", remaining_hours |-> remaining, deadline |-> NoDate,
   target_hours_per_week |-> target, hours_this_week |-> week,
   estimated_minutes_per_day |-> est,
   min_chunk_minutes |-> 25, max_chunk_minutes |-> 180]

\* Task.to_dict followed by Task.from_dict: what a save and a load keep
TaskRoundTrip(t) ==
  [t EXCEPT
    !.remaining_hours = IF t.type = "deadline_project" THEN @ ELSE NoNum,
    !.deadline = IF t.type = "deadline_project" THEN @ ELSE NoDate,
    !.target_hours_per_week = IF t.type = "weekly_budget" THEN @ ELSE NoNum,
    !.hours_this_week = IF t.type = "weekly_budget" THEN @ ELSE 0,
    !.estimated_minutes_per_day = IF t.type = "daily_ritual" THEN @ ELSE NoNum]

\* TasksFile.to_dict / from_dict
TasksFileRoundTrip(tf) ==
  [week_start |-> tf.week_start,
   tasks |-> [i \in 1..Len(tf.tasks) |-> TaskRoundTrip(tf.tasks[i])],
   archived |-> [i \in 1..Len(tf.archived) |-> TaskRoundTrip(tf.archived[i])]]

\* the tasks.yaml a workspace is set up with
InitialTasks ==
  [week_start |-> "mon",
   tasks |-> << Task("paper", LPaper.title, "deadline_project", 10, 180, NoNum, 0, NoNum),
                Task("work", LWeekly.title, "weekly_budget", 8, NoNum, 480, 60, NoNum),
                Task("maint", LMaint.title, "daily_ritual", 5, NoNum, NoNum, 0, 10) >>,
   archived |-> << >>]

DAY_MAP(name) ==
  CASE name = "mon" -> 0 [] name = "tue" -> 1 [] name = "wed" -> 2
    [] name = "thu" -> 3 [] name = "fri" -> 4 [] name = "sat" -> 5
    [] name = "sun" -> 6 [] OTHER -> 0

\* match_task_from_label: index of the matched task in tasks, 0 for None
match_task_from_label(label, tasks) ==
  LET prefix == Lower(parse_task_title_from_label(label))
      exact == {i \in 1..Len(tasks) : Lower(tasks[i].title) = prefix}
      loose == {i \in 1..Len(tasks) :
                  \/ StartsWith(Lower(tasks[i].title), prefix)
                  \/ StartsWith(prefix, Lower(tasks[i].title))}
      first(S) == CHOOSE i \in S : \A j \in S : i <= j
  IN IF prefix = <<>> THEN 0
     ELSE IF exact # {} THEN first(exact)
     ELSE IF loose # {} THEN first(loose)
     ELSE 0

\* update_task_progress without the max(0, ...)
update_task_progress_below_zero(task, minutes_done) ==
  IF task.type = "deadline_project" /\ task.remaining_hours # NoNum
  THEN LET rem == task.remaining_hours - minutes_done
       IN [task EXCEPT !.remaining_hours = rem,
                       !.status = IF rem <= 0 THEN "complete" ELSE @]
  ELSE IF task.type = "weekly_budget"
  THEN [task EXCEPT !.hours_this_week = @ + minutes_done]
  ELSE task

\* update_task_progress
update_task_progress(task, minutes_done) ==
  IF task.type = "deadline_project" /\ task.remaining_hours # NoNum
  THEN LET rem == Max(0, task.remaining_hours - minutes_done)
       IN [task EXCEPT !.remaining_hours = rem,
                       !.status = IF rem <= 0 THEN "complete" ELSE @]
  ELSE IF task.type = "weekly_budget"
  THEN [task EXCEPT !.hours_this_week = @ + minutes_done]
  ELSE task

\* the minutes process_checkin_progress credits for one done item
ItemMinutes(label, task) ==
  LET m == parse_duration_from_label(label)
  IN IF m > 0 THEN m
     ELSE IF task.type = "daily_ritual"
             /\ task.estimated_minutes_per_day # NoNum
             /\ task.estimated_minutes_per_day # 0
     THEN task.estimated_minutes_per_day
     ELSE FallbackMinutes

\* process_checkin_progress: the task list after the done items of the
\* draft were applied in order, and the update descriptions
RECURSIVE process_checkin_progress(_, _, _)
process_checkin_progress(items, tasks, updates) ==
  IF items = <<>> THEN [tasks |-> tasks, updates |-> updates]
  ELSE LET item == Head(items)
           i == IF item.done THEN match_task_from_label(item.label, tasks) ELSE 0
       IN IF i = 0 THEN process_checkin_progress(Tail(items), tasks, updates)
          ELSE LET m == ItemMinutes(item.label, tasks[i])
               IN process_checkin_progress(
                    Tail(items),
                    [tasks EXCEPT ![i] = update_task_progress(tasks[i], m)],
                    Append(updates, <<tasks[i].id, m>>))

\* reset_weekly_budgets: the task list and state.week_start_date afterwards
reset_weekly_budgets(tasks_file, week_start_date, today) ==
  LET week_start_day == DAY_MAP(tasks_file.week_start)
      unchanged == [tasks |-> tasks_file.tasks, week_start_date |-> week_start_date]
  IN IF week_start_date # NoDate /\ today - week_start_date < 7 THEN unchanged
     ELSE IF Weekday(today) = week_start_day
     THEN [tasks |-> [i \in 1..Len(tasks_file.tasks) |->
                        IF tasks_file.tasks[i].type = "weekly_budget"
                        THEN [tasks_file.tasks[i] EXCEPT !.hours_this_week = 0]
                        ELSE tasks_file.tasks[i]],
           week_start_date |-> today]
     ELSE IF week_start_date = NoDate
     THEN [tasks |-> tasks_file.tasks,
           week_start_date |-> today - ((Weekday(today) - week_start_day) % 7)]
     ELSE unchanged

\* archive_completed_tasks
archive_completed_tasks(tasks, archived) ==
  [tasks |-> SelectSeq(tasks, LAMBDA t : t.status # "complete"),
   archived |-> archived \o SelectSeq(tasks, LAMBDA t : t.status = "complete")]

\* ------------------------------------------------------------ task CRUD
\* A task dict (a request payload, a patch, Task.to_dict()) is a function
\* from the keys it holds to their values.
VALID_TYPES == {"deadline_project", "weekly_budget", "daily_ritual", "open_ended"}
VALID_STATUSES == {"active", "paused", "complete"}

\* d.get(k, default)
Get(d, k, default) == IF k \in DOMAIN d THEN d[k] ELSE default

\* dict.update: the keys of u replace or extend those of d
DictUpdate(d, u) ==
  [k \in DOMAIN d \cup DOMAIN u |-> IF k \in DOMAIN u THEN u[k] ELSE d[k]]

\* Task.to_dict: the type-specific and the non-default keys are optional
Task_to_dict(t) ==
  LET keys == {"id", "title", "type", "priority", "status"}
        \cup (IF t.type = "deadline_project" /\ t.remaining_hours # NoNum
              THEN {"remaining_hours"} ELSE {})
        \cup (IF t.type = "deadline_project" /\ t.deadline # NoDate
              THEN {"deadline"} ELSE {})
        \cup (IF t.type = "weekly_budget" /\ t.target_hours_per_week # NoNum
              THEN {"target_hours_per_week"} ELSE {})
        \cup (IF t.type = "weekly_budget" THEN {"hours_this_week"} ELSE {})
        \cup (IF t.type = "daily_ritual" /\ t.estimated_minutes_per_day # NoNum
              THEN {"estimated_minutes_per_day"} ELSE {})
        \cup (IF t.min_chunk_minutes # 25 THEN {"min_chunk_minutes"} ELSE {})
        \cup (IF t.max_chunk_minutes # 180 THEN {"max_chunk_minutes"} ELSE {})
  IN [k \in keys |-> t[k]]

\* Task.from_dict: missing keys take the dataclass defaults
Task_from_dict(d) ==
  [id |-> Get(d, "id", ""), title |-> Get(d, "title", <<>>),
   type |-> Get(d, "type", ""), priority |-> Get(d, "priority", 5),
   status |-> Get(d, "status", "active"),
   remaining_hours |-> Get(d, "remaining_hours", NoNum),
   deadline |-> Get(d, "deadline", NoDate),
   target_hours_per_week |-> Get(d, "target_hours_per_week", NoNum),
   hours_this_week |-> Get(d, "hours_this_week", 0),
   estimated_minutes_per_day |-> Get(d, "estimated_minutes_per_day", NoNum),
   min_chunk_minutes |-> Get(d, "min_chunk_minutes", 25),
   max_chunk_minutes |-> Get(d, "max_chunk_minutes", 180)]

\* validate_task: the set of errors; the values of the numeric keys are
\* numbers in every dict of the model, so the isinstance tests pass
validate_task(task) ==
  (IF "id" \notin DOMAIN task THEN {"Missing required field: id"} ELSE {})
    \cup (IF "title" \notin DOMAIN task THEN {"Missing required field: title"} ELSE {})
    \cup (IF "type" \notin DOMAIN task THEN {"Missing required field: type"}
          ELSE IF task["type"] \notin VALID_TYPES THEN {"Invalid task type"} ELSE {})
    \cup (IF "status" \in DOMAIN task /\ task["status"] \notin VALID_STATUSES
          THEN {"Invalid status"} ELSE {})
    \cup (IF "priority" \in DOMAIN task /\ (task["priority"] < 1 \/ task["priority"] > 10)
          THEN {"priority must be integer 1-10"} ELSE {})

\* find_task: the index of the first active task with this id, 0 for None
find_task(tasks_file, task_id) ==
  LET hits == {i \in 1..Len(tasks_file.tasks) : tasks_file.tasks[i].id = task_id}
  IN IF hits = {} THEN 0 ELSE CHOOSE i \in hits : \A j \in hits : i <= j

\* create_task: the errors and the tasks file afterwards
create_task(tasks_file, task_data) ==
  IF validate_task(task_data) # {}
  THEN [errors |-> validate_task(task_data), tasks_file |-> tasks_file]
  ELSE IF find_task(tasks_file, task_data["id"]) # 0
  THEN [errors |-> {"Task ID already exists"}, tasks_file |-> tasks_file]
  ELSE [errors |-> {},
        tasks_file |-> [tasks_file EXCEPT !.tasks = Append(@, Task_from_dict(task_data))]]

\* update_task that stores the merged task before validating it
update_task_store_first(tasks_file, i, task_dict) ==
  [errors |-> validate_task(task_dict),
   tasks_file |-> [tasks_file EXCEPT !.tasks[i] = Task_from_dict(task_dict)]]

\* update_task with the task found at index i and the merged dict
update_task_merged(tasks_file, i, task_dict) ==
  IF validate_task(task_dict) # {}
  THEN [errors |-> validate_task(task_dict), tasks_file |-> tasks_file]
  ELSE [errors |-> {},
        tasks_file |-> [tasks_file EXCEPT !.tasks[i] = Task_from_dict(task_dict)]]

\* update_task: the errors and the tasks file afterwards
update_task(tasks_file, task_id, updates) ==
  IF find_task(tasks_file, task_id) = 0
  THEN [errors |-> {"Task not found"}, tasks_file |-> tasks_file]
  ELSE update_task_merged(tasks_file, find_task(tasks_file, task_id),
         DictUpdate(Task_to_dict(tasks_file.tasks[find_task(tasks_file, task_id)]), updates))

\* the sequence without its i-th element (list.pop(i))
Pop(seq, i) == SubSeq(seq, 1, i - 1) \o SubSeq(seq, i + 1, Len(seq))

\* delete_task that archives whatever the archive flag says
delete_task_always_archive(tasks_file, task_id, archive) ==
  LET i == find_task(tasks_file, task_id)
  IN IF i = 0 THEN [deleted |-> FALSE, tasks_file |-> tasks_file]
     ELSE [deleted |-> TRUE,
           tasks_file |->
             [tasks_file EXCEPT
                !.tasks = Pop(@, i),
                !.archived = Append(@, [tasks_file.tasks[i] EXCEPT !.status = "complete"])]]

\* delete_task: whether a task was removed, and the tasks file afterwards
delete_task(tasks_file, task_id, archive) ==
  LET i == find_task(tasks_file, task_id)
  IN IF i = 0 THEN [deleted |-> FALSE, tasks_file |-> tasks_file]
     ELSE [deleted |-> TRUE,
           tasks_file |->
             [tasks_file EXCEPT
                !.tasks = Pop(@, i),
                !.archived = IF archive
                             THEN Append(@, [tasks_file.tasks[i] EXCEPT !.status = "complete"])
                             ELSE @]]

\* ---------------------------------------------------------------- rating
\* compute_rating measuring the reflection as given, not trimmed
compute_rating_untrimmed(done_count, total_items, reflection, any_time) ==
  IF \/ done_count >= Max(1, total_items \div 2)
     \/ done_count >= 2
     \/ (any_time /\ done_count >= 1)
  THEN "good"
  ELSE IF done_count >= 1 \/ Len(reflection) >= ReflectionMin THEN "fair"
  ELSE "bad"

\* compute_rating
compute_rating(done_count, total_items, reflection, any_time) ==
  IF \/ done_count >= Max(1, total_items \div 2)
     \/ done_count >= 2
     \/ (any_time /\ done_count >= 1)
  THEN "good"
  ELSE IF done_count >= 1 \/ Len(Strip(reflection)) >= ReflectionMin THEN "fair"
  ELSE "bad"

\* counts_for_streak
counts_for_streak(done_count, reflection, plan_changed) ==
  done_count >= 1 \/ Len(Strip(reflection)) >= ReflectionMin \/ plan_changed

\* summarize_paragraph: the parts the one-line summary is formatted from
summarize_paragraph(day, rating, done_items, reflection) ==
  [lead |-> rating, day |-> day,
   top |-> SubSeq(done_items, 1, Min(3, Len(done_items))),
   more |-> Max(0, Len(done_items) - 3),
   reflection_recorded |-> Strip(reflection) # <<>>]

NoSummary == [lead |-> None, day |-> NoDate, top |-> <<>>, more |-> 0,
              reflection_recorded |-> FALSE]

\* ------------------------------------------------------- reflections.md
\* The file is a sequence of pieces: "text" (prose without a dated heading
\* and without the separator), "marker" (the separator "---\n\n") and
\* "entry" (one dated entry from its "## <date>" heading on, or up to a
\* separator inside its reflection text).
Piece(k) == [k |-> k, day |-> NoDate, rating |-> "", mode |-> "",
             done |-> <<>>, notes |-> <<>>, refl |-> <<>>]
TextPiece == Piece("text")
MarkerPiece == Piece("marker")

\* "# Reflections (rolling)\n\nAppend newest entries at the top.\n\n---\n\n"
DefaultHeader == <<TextPiece, MarkerPiece>>

\* build_reflection_entry; the Auto-summary line repeats fields of the
\* entry and the Time line is not modelled.  The reflection text is followed
\* by a blank line, so a reflection that ends in "---" (or holds "---" before
\* a blank line) puts the separator text into the entry; labels and comments
\* of the model hold no dashes.
build_reflection_entry(today, rating, mode, done_items, items, reflection) ==
  LET noted == SelectSeq(items, LAMBDA it : Strip(it.comment) # <<>>)
      head == [k |-> "entry", day |-> today, rating |-> rating, mode |-> mode,
               done |-> done_items,
               notes |-> [i \in 1..Len(noted) |->
                            <<noted[i].label, Strip(noted[i].comment)>>],
               refl |-> Strip(reflection)]
  IN IF Contains(Strip(reflection) \o <<"\n", "\n">>, Marker)
     THEN <<head, MarkerPiece, TextPiece>>
     ELSE <<head>>

\* prepend_reflection: the new content of reflections.md
prepend_reflection(content, entry_md) ==
  LET existing == IF content = <<>> THEN DefaultHeader ELSE content
      hits == {i \in 1..Len(existing) : existing[i].k = "marker"}
      idx == CHOOSE i \in hits : \A j \in hits : i <= j
  IN IF hits # {}
     THEN SubSeq(existing, 1, idx) \o entry_md
            \o SubSeq(existing, idx + 1, Len(existing))
     ELSE entry_md \o existing

\* the dates of the "## <date>" headings, in file order
Headings(content) ==
  LET es == SelectSeq(content, LAMBDA p : p.k = "entry")
  IN [i \in 1..Len(es) |-> es[i].day]

\* ------------------------------------------------------------ state.json
\* core.models.State(); weeklyBudgetTracking is never written
DefaultState ==
  [streak |-> 0, last_streak_date |-> NoDate, last_rating |-> None,
   last_mode |-> None, last_summary |-> NoSummary,
   last_finalized_date |-> NoDate, history |-> <<>>,
   week_start_date |-> NoDate]

HistoryEntry(day, rating, mode, counts, done_count, total) ==
  [day |-> day, rating |-> rating, mode |-> mode, streak_counted |-> counts,
   done_count |-> done_count, total |-> total]

RECURSIVE SortedDays(_)
SortedDays(S) ==
  IF S = {} THEN <<>>
  ELSE LET m == CHOOSE x \in S : \A y \in S : x <= y
       IN <<m>> \o SortedDays(S \ {m})

\* seq[-n:]
LastN(seq, n) == SubSeq(seq, Max(1, Len(seq) - n + 1), Len(seq))

\* push_history keeping the head of the sorted list instead of its tail:
\* the newest days are the ones dropped
push_history_head(history, hist_entry) ==
  LET all == history \o <<hist_entry>>
      days == SortedDays({all[i].day : i \in 1..Len(all)})
      last(d) == CHOOSE i \in 1..Len(all) :
                   /\ all[i].day = d
                   /\ \A j \in 1..Len(all) : all[j].day = d => j <= i
  IN SubSeq([i \in 1..Len(days) |-> all[last(days[i])]], 1, Min(Len(days), HistoryCap))

\* finalize_day, "History (keep last 30 days)": de-duplicate by day (the
\* last entry of a day wins), add today's entry, sort by day, keep the tail
push_history(history, hist_entry) ==
  LET all == history \o <<hist_entry>>
      days == SortedDays({all[i].day : i \in 1..Len(all)})
      last(d) == CHOOSE i \in 1..Len(all) :
                   /\ all[i].day = d
                   /\ \A j \in 1..Len(all) : all[j].day = d => j <= i
  IN LastN([i \in 1..Len(days) |-> all[last(days[i])]], HistoryCap)

\* counted_streak without the gap test: a counted day always adds 1
counted_streak_no_gap(streak, last_streak_date, today) ==
  IF last_streak_date # NoDate THEN streak + 1 ELSE 1

\* finalize_day, streak arithmetic of a counted day whose last_streak_date
\* is not today: restart at 1 after a gap of more than one day or with no
\* last_streak_date, else add 1 (a stored date is always an ISO date, so the
\* except branch is not reached)
counted_streak(streak, last_streak_date, today) ==
  IF last_streak_date # NoDate
  THEN (IF today - last_streak_date > 1 THEN 1 ELSE streak + 1)
  ELSE 1

\* next_streak where a day that does not count ends the streak
next_streak_reset(streak, last_streak_date, counts, today) ==
  IF counts /\ last_streak_date # today
  THEN [streak |-> counted_streak(streak, last_streak_date, today),
        last_streak_date |-> today]
  ELSE [streak |-> 0, last_streak_date |-> NoDate]

\* finalize_day, "if counts:": streak and last_streak_date afterwards
next_streak(streak, last_streak_date, counts, today) ==
  IF counts /\ last_streak_date # today
  THEN [streak |-> counted_streak(streak, last_streak_date, today),
        last_streak_date |-> today]
  ELSE [streak |-> streak, last_streak_date |-> last_streak_date]

\* ------------------------------------------------------------- analytics
\* compute_analytics, "Streak history from state"
RECURSIVE streak_history(_, _, _, _)
streak_history(hist, start, len, out) ==
  IF hist = <<>>
  THEN out
  ELSE LET e == Head(hist)
           rest == Tail(hist)
       IN IF e.streak_counted
          THEN LET st == IF start = NoDate THEN e.day ELSE start
               IN IF rest = <<>>
                  THEN Append(out, [start |-> st, end |-> e.day, length |-> len + 1])
                  ELSE streak_history(rest, st, len + 1, out)
          ELSE streak_history(rest, NoDate, 0,
                 IF len > 0
                 THEN Append(out, [start |-> start, end |-> e.day, length |-> len])
                 ELSE out)

\* sorted(seq, key=day): stable insertion sort
RECURSIVE sort_by_day(_)
sort_by_day(seq) ==
  IF seq = <<>> THEN <<>>
  ELSE LET e == seq[Len(seq)]
           front == sort_by_day(SubSeq(seq, 1, Len(seq) - 1))
           before == SelectSeq(front, LAMBDA x : x.day <= e.day)
           after == SelectSeq(front, LAMBDA x : x.day > e.day)
       IN before \o <<e>> \o after

\* ------------------------------------------------- parse_reflections
\* str.upper() and str.lower() on the words written after "**Rating:**"
\* and "**Mode:**"
WordUpper(w) ==
  CASE w = "good" -> "GOOD" [] w = "fair" -> "FAIR" [] w = "bad" -> "BAD"
    [] w = "commit" -> "COMMIT" [] w = "recovery" -> "RECOVERY" [] OTHER -> w
WordLower(w) ==
  CASE w = "GOOD" -> "good" [] w = "FAIR" -> "fair" [] w = "BAD" -> "bad"
    [] w = "COMMIT" -> "commit" [] w = "RECOVERY" -> "recovery" [] OTHER -> w

RECURSIVE split_lines(_, _, _)
split_lines(text, cur, out) ==
  IF text = <<>> THEN Append(out, cur)
  ELSE IF Head(text) = "\n" THEN split_lines(Tail(text), <<>>, Append(out, cur))
  ELSE split_lines(Tail(text), Append(cur, Head(text)), out)

IsDigit(c) == c \in {"0", "1", "2", "3", "4", "5", "6", "7", "8", "9"}

RECURSIVE digits_value(_, _)
digits_value(chars, acc) ==
  IF chars = <<>> \/ ~IsDigit(Head(chars)) THEN acc
  ELSE digits_value(Tail(chars),
                    acc * 10 + (CHOOSE n \in 0..9 :
                                  <<"0", "1", "2", "3", "4", "5", "6", "7", "8", "9">>[n + 1]
                                    = Head(chars)))

\* the date of a line that matches "^## <date>", NoDate for any other line;
\* a date is written as the digits of its day ordinal
heading_day(line) ==
  IF Len(line) >= 4 /\ SubSeq(line, 1, 3) = <<"#", "#", " ">> /\ IsDigit(line[4])
  THEN digits_value(SubSeq(line, 4, Len(line)), 0)
  ELSE NoDate

\* the dates of the lines of a text that match "^## <date>", from line
\* number first on
heading_days(text, first) ==
  IF \A i \in 1..Len(text) : text[i] # "#" THEN <<>>
  ELSE LET lines == split_lines(text, <<>>, <<>>)
           days == [i \in 1..Len(lines) |->
                      IF i >= first THEN heading_day(lines[i]) ELSE NoDate]
       IN SelectSeq(days, LAMBDA d : d # NoDate)

RECURSIVE FlattenDays(_)
FlattenDays(seqs) ==
  IF seqs = <<>> THEN <<>> ELSE Head(seqs) \o FlattenDays(Tail(seqs))

DayRecord(day, rating, mode, done_items) ==
  [date |-> day, rating |-> rating, mode |-> mode, done_items |-> done_items]

\* the records parse_reflections finds in one entry as build_reflection_entry
\* wrote it: the entry's own, and one more for every line of a note's comment
\* or of the reflection that reads like a dated heading (such a section has
\* no Rating, Mode or Done part).  The labels of the model are single lines
\* other than "(none)".
entry_records(e) ==
  LET inner == FlattenDays([i \in 1..Len(e.notes) |-> heading_days(e.notes[i][2], 2)])
                 \o heading_days(e.refl, 1)
  IN <<DayRecord(e.day, WordLower(WordUpper(e.rating)), WordLower(WordUpper(e.mode)),
                 e.done)>>
     \o [i \in 1..Len(inner) |-> DayRecord(inner[i], "", "", <<>>)]

\* parse_reflections: the records of the sections of reflections.md, in
\* file order
RECURSIVE parse_reflections(_)
parse_reflections(content) ==
  IF content = <<>> THEN <<>>
  ELSE (IF Head(content).k = "entry" THEN entry_records(Head(content)) ELSE <<>>)
       \o parse_reflections(Tail(content))

\* analytics.json before the first refresh
NoAnalytics == [totalDaysTracked |-> 0, streakHistory |-> <<>>]

\* compute_analytics returns the empty summary when there is no record; of
\* the summary, totalDaysTracked and streakHistory are modelled
compute_analytics(records, st) ==
  IF records = <<>>
  THEN NoAnalytics
  ELSE [totalDaysTracked |-> Len(records),
        streakHistory |-> streak_history(sort_by_day(st.history), NoDate, 0, <<>>)]

refresh_analytics(content, st) == compute_analytics(parse_reflections(content), st)

\* agent_context.json before the first generation
NoAgentContext == [generatedOn |-> NoDate, streak |-> 0, lastRating |-> None,
                   totalDaysTracked |-> 0, weeklyBudgetStatus |-> <<>>]

\* generate_agent_context: of the context, the state snapshot and the
\* weekly budget status are modelled
generate_agent_context(st, an, tf, today) ==
  LET budgets == SelectSeq(tf.tasks, LAMBDA t :
                   /\ t.type = "weekly_budget"
                   /\ t.target_hours_per_week # NoNum
                   /\ t.target_hours_per_week # 0)
  IN [generatedOn |-> today, streak |-> st.streak, lastRating |-> st.last_rating,
      totalDaysTracked |-> an.totalDaysTracked,
      weeklyBudgetStatus |-> [i \in 1..Len(budgets) |->
                                <<budgets[i].id, budgets[i].hours_this_week>>]]

\* ------------------------------------------------------------- workspace
VARIABLES
  today,          \* the calendar day of the user's clock
  draft,          \* planner/latest/checkin_draft.json
  state,          \* planner/state.json
  reflections,    \* reflections/reflections.md
  tasks,          \* planner/tasks.yaml
  analytics,      \* planner/analytics.json
  agent_context,  \* planner/agent_context.json
  plan,           \* planner/latest/plan.md
  plan_prev,      \* planner/latest/plan_prev.md
  tui,            \* the draft held in memory by a running TUI (MoltFocusApp._draft)
  ret,            \* the most recent call and what it returned
  crashes,        \* history: the number of interrupted finalize_day calls
  pending,        \* calls in flight: what an interrupted finalization would have
                  \* written; in the interleaved runs, what each caller holds in memory
  counted,        \* history: the days whose counted finalization reached state.json
  finalized,      \* history: the days on which finalize_day returned a rating
  focus,          \* planner/focus.json
  now,            \* the wall clock, in tenths of a minute
  profile,        \* planner/profile.yaml
  schedule        \* the DaySchedule generate_schedule returned last

files == <<draft, state, reflections, tasks, analytics, agent_context>>
plans == <<plan, plan_prev>>
vars == <<today, draft, state, reflections, tasks, analytics, agent_context,
          plan, plan_prev, tui, ret, crashes, pending, counted, finalized,
          focus, now, profile, schedule>>

\* what the daily loop leaves alone
aux == <<focus, now, profile, schedule>>

\* what the task API, the focus timer and the scheduler leave alone
daily == <<today, draft, state, reflections, analytics, agent_context,
           plan, plan_prev, tui, crashes, counted, finalized>>

\* a missing or empty file
NoFile == [exists |-> FALSE, text |-> <<>>]
File(text) == [exists |-> TRUE, text |-> text]

\* checkin_draft.json; a missing file reads as {} (no day); mode None is an
\* absent "mode" key
Draft(day, mode, items, reflection) ==
  [day |-> day, mode |-> mode, items |-> items, reflection |-> reflection]
NoDraft == Draft(NoDate, None, <<>>, <<>>)

\* a clearing that keeps no day in the draft
ClearedDraft_no_day(day) == Draft(NoDate, None, <<>>, <<>>)

\* the draft finalize_day leaves behind (step 10)
ClearedDraft(day) == Draft(day, None, <<>>, <<>>)

NoTui == <<>>

Workspace == [draft |-> draft, state |-> state, refl |-> reflections,
              tasks |-> tasks, an |-> analytics, ag |-> agent_context]

\* ----------------------------------------------------------- finalize_day
\* The failures a best-effort stage can be made to have: tasks.yaml cannot
\* be loaded, the second state.json write fails after tasks.yaml was saved,
\* the analytics refresh fails, the agent-context generation fails, a
\* post_finalize hook fails.
Failures == {"tasks_load", "state_resave", "analytics", "agent_context", "hooks"}

\* a draft check that accepts a draft of any day
draft_is_for_any_day(day, raw_draft) == TRUE

\* finalize_day step 1: the stored draft is today's
draft_is_for(day, raw_draft) == raw_draft.day = day

\* an idempotency guard that never fires
already_finalized_never(day, st) == FALSE

\* finalize_day step 2, the idempotency guard
already_finalized(day, st) == st.last_finalized_date = day

\* finalize_day steps 1 and 2 in the order of the code
finalize_gate(day, raw_draft, st) ==
  IF ~draft_is_for(day, raw_draft) THEN "no-draft-for-today"
  ELSE IF already_finalized(day, st) THEN "already_finalized"
  ELSE "run"

\* finalized_state that keeps the stored streak and rating
finalized_state_stale(st, ns, rating, draft_mode, summary, day, hist_entry) ==
  [st EXCEPT !.last_streak_date = ns.last_streak_date,
             !.last_mode = draft_mode,
             !.last_summary = summary,
             !.last_finalized_date = day,
             !.history = push_history(st.history, hist_entry)]

\* finalize_day step 5 with the streak and history assignments before it:
\* the State that is written to state.json
finalized_state(st, ns, rating, draft_mode, summary, day, hist_entry) ==
  [st EXCEPT !.streak = ns.streak,
             !.last_streak_date = ns.last_streak_date,
             !.last_rating = rating,
             !.last_mode = draft_mode,
             !.last_summary = summary,
             !.last_finalized_date = day,
             !.history = push_history(st.history, hist_entry)]

\* write_points_passed where a failing best-effort stage ends the call
write_points_passed_fatal(crash, fail) ==
  IF fail # {} THEN Min(crash, 2) ELSE crash

\* finalize_day steps 6 to 9 run inside try / except Exception: pass, so a
\* failing best-effort stage does not end the call; the call passes `crash`
\* write points whatever stages failed
write_points_passed(crash, fail) == crash

\* day_result where recovery mode lifts a bad day to fair and counts it
day_result_recovery_lenient(raw_draft, pl, pl_prev) ==
  LET draft_mode == IF raw_draft.mode \in {"commit", "recovery"}
                    THEN raw_draft.mode ELSE "commit"
      done == SelectSeq(raw_draft.items, LAMBDA it : it.done)
      rating == compute_rating(Len(done), Len(raw_draft.items), raw_draft.reflection, FALSE)
  IN [draft_mode |-> draft_mode,
      done_items |-> [i \in 1..Len(done) |-> done[i].label],
      total_items |-> Len(raw_draft.items),
      rating |-> IF draft_mode = "recovery" /\ rating = "bad" THEN "fair" ELSE rating,
      counts |-> \/ draft_mode = "recovery"
                 \/ counts_for_streak(Len(done), raw_draft.reflection,
                                      IF pl_prev.exists
                                      THEN Strip(pl_prev.text) # Strip(pl.text)
                                      ELSE Strip(pl.text) # <<>>)]

\* finalize_day, "Collect done items" to "3. Compute rating/streak": what
\* the call derives from the draft, the state and the plan files
day_result(raw_draft, pl, pl_prev) ==
  LET draft_mode == IF raw_draft.mode \in {"commit", "recovery"}
                    THEN raw_draft.mode ELSE "commit"
      reflection == raw_draft.reflection
      done == SelectSeq(raw_draft.items, LAMBDA it : it.done)
      done_count == Len(done)
      plan_cur == Strip(pl.text)
      plan_changed == IF pl_prev.exists THEN Strip(pl_prev.text) # plan_cur
                      ELSE plan_cur # <<>>
      rating == compute_rating(done_count, Len(raw_draft.items), reflection, FALSE)
      counts == counts_for_streak(done_count, reflection, plan_changed)
  IN [draft_mode |-> draft_mode,
      done_items |-> [i \in 1..Len(done) |-> done[i].label],
      total_items |-> Len(raw_draft.items),
      rating |-> IF /\ draft_mode = "recovery"
                    /\ rating = "bad"
                    /\ (done_count >= 1 \/ Len(Strip(reflection)) >= ReflectionMin)
                 THEN "fair" ELSE rating,
      counts |-> IF draft_mode = "recovery"
                 THEN counts \/ Len(Strip(reflection)) >= ReflectionMin
                 ELSE counts]

\* finalize_day, streak, summary, history and "4. Build ... reflection": the
\* State and the entry that steps 4 and 5 write, from the day's result r
day_records(day, raw_draft, st, r, ns, summary) ==
  [ns |-> ns,
   entry_md |-> build_reflection_entry(day, r.rating, r.draft_mode, r.done_items,
                                       raw_draft.items, raw_draft.reflection),
   state |-> finalized_state(st, ns, r.rating, r.draft_mode, summary, day,
               HistoryEntry(day, r.rating, r.draft_mode, r.counts,
                            Len(r.done_items), r.total_items))]

\* finalize_day step 6 in memory (reset_weekly_budgets, then
\* process_checkin_progress, then archive_completed_tasks): the tasks file to
\* save, whether it is saved, state.week_start_date afterwards and the
\* update descriptions
task_stage(tasks_file, rw, pr, ar) ==
  [changed |-> pr.updates # <<>> \/ Len(ar.tasks) # Len(pr.tasks),
   tasks |-> TasksFileRoundTrip([week_start |-> tasks_file.week_start,
                                 tasks |-> ar.tasks, archived |-> ar.archived]),
   week_start_date |-> rw.week_start_date,
   updates |-> pr.updates]

task_stage_archive(tasks_file, rw, pr) ==
  task_stage(tasks_file, rw, pr, archive_completed_tasks(pr.tasks, tasks_file.archived))

task_stage_progress(items, tasks_file, rw) ==
  task_stage_archive(tasks_file, rw, process_checkin_progress(items, rw.tasks, <<>>))

task_stage_reset(items, tasks_file, week_start_date, day) ==
  task_stage_progress(items, tasks_file,
                      reset_weekly_budgets(tasks_file, week_start_date, day))

\* the workspace after the write points passed so far is the last element
Last(stages) == stages[Len(stages)]

\* write point 1, step 4: prepend_reflection(rp, entry_md)
write_reflections(stages, entry_md) ==
  Append(stages, [Last(stages) EXCEPT !.refl = prepend_reflection(@, entry_md)])

\* write point 2, step 5: write_json_atomic(sp, state.to_dict())
write_state(stages, state1) ==
  Append(stages, [Last(stages) EXCEPT !.state = state1])

\* write point 3, step 6: save_tasks when there are updates or archived tasks
write_tasks(stages, t, fail) ==
  Append(stages, IF "tasks_load" \notin fail /\ t.changed
                 THEN [Last(stages) EXCEPT !.tasks = t.tasks]
                 ELSE Last(stages))

\* write point 4, step 6: state.json again, with the week_start_date that
\* reset_weekly_budgets set
write_state_again(stages, t, fail) ==
  Append(stages, IF /\ "tasks_load" \notin fail
                    /\ t.changed
                    /\ "state_resave" \notin fail
                 THEN [Last(stages) EXCEPT !.state.week_start_date = t.week_start_date]
                 ELSE Last(stages))

\* write point 5, step 7: refresh_analytics reads reflections.md and state.json
write_analytics(stages, fail) ==
  Append(stages, IF "analytics" \in fail THEN Last(stages)
                 ELSE [Last(stages) EXCEPT
                         !.an = refresh_analytics(Last(stages).refl, Last(stages).state)])

\* write point 6, step 8: generate_agent_context reads state.json,
\* analytics.json and tasks.yaml
write_agent_context(stages, day, fail) ==
  Append(stages, IF "agent_context" \in fail THEN Last(stages)
                 ELSE [Last(stages) EXCEPT
                         !.ag = generate_agent_context(Last(stages).state, Last(stages).an,
                                                       Last(stages).tasks, day)])

\* write point 7, step 10: clear the draft
write_draft(stages, day) ==
  Append(stages, [Last(stages) EXCEPT !.draft = ClearedDraft(day)])

\* finalize_day steps 4 to 10 on workspace w: stages[k + 1] is the workspace
\* after k write points, and the values the call returns
finalize_writes(day, w, fail, r, rec, t) ==
  [gate |-> finalize_gate(day, w.draft, w.state),
   stages |-> write_draft(
                write_agent_context(
                  write_analytics(
                    write_state_again(
                      write_tasks(
                        write_state(
                          write_reflections(<<w>>, rec.entry_md),
                          rec.state),
                        t, fail),
                      t, fail),
                    fail),
                  day, fail),
                day),
   rating |-> r.rating,
   streak |-> rec.ns.streak,
   counts |-> r.counts,
   task_updates |-> IF "tasks_load" \notin fail THEN t.updates ELSE <<>>]

finalize_records(day, w, fail, r) ==
  finalize_writes(day, w, fail, r,
    day_records(day, w.draft, w.state, r,
                next_streak(w.state.streak, w.state.last_streak_date, r.counts, day),
                summarize_paragraph(day, r.rating, r.done_items, w.draft.reflection)),
    task_stage_reset(w.draft.items, w.tasks, w.state.week_start_date, day))

\* finalize_day on workspace w with the best-effort stages in `fail` failing
finalize_day(day, w, pl, pl_prev, fail) ==
  finalize_records(day, w, fail, day_result(w.draft, pl, pl_prev))

\* --------------------------------------------------------------- inputs
Item(key, label, done, comment) ==
  [key |-> key, label |-> label, done |-> done, comment |-> comment]

ReflPadded == <<" ", " ">> \o Rep("x", ReflectionMin - 1) \o <<"\n">>
ReflLong == Rep("x", ReflectionMin)
ReflDashes == Rep("x", ReflectionMin - 3) \o <<"-", "-", "-">>

P(mode, items, reflection) ==
  [mode |-> mode, items |-> items, reflection |-> reflection]

\* the payloads of POST /api/checkin_draft
DraftInputs ==
  { P("commit", <<>>, <<>>),
    P("zen", <<Item("line-1", LPaper, FALSE, <<" ">>)>>, ReflPadded),
    P("recovery", <<>>, ReflDashes),
    P("commit", <<Item("line-1", LPaper, TRUE, <<"c">>),
                  Item("line-2", LWeekly, TRUE, <<>>)>>, <<>>),
    P("commit", <<Item("line-1", LMaint, TRUE, <<>>),
                  Item("line-2", LPaper, FALSE, <<>>),
                  Item("line-3", LWeekly, FALSE, <<>>),
                  Item("line-4", LOther, FALSE, <<>>)>>, <<>>) }

\* the payloads of the runs with interrupted calls and failing stages
DraftInputsFault ==
  { P("commit", <<>>, ReflLong),
    P("commit", <<Item("line-1", LPaper, TRUE, <<>>)>>, <<>>) }

\* the payloads used where a TUI session runs next to the web UI
DraftInputsTui ==
  { P("commit", <<>>, <<>>),
    P("commit", <<Item("line-1", LPaper, TRUE, <<>>)>>, <<>>) }

\* the payloads of the streak run: a day that does not count, one that does
DraftInputsStreak ==
  { P("commit", <<>>, <<>>),
    P("commit", <<Item("line-1", LOther, TRUE, <<>>)>>, <<>>) }

\* the payload of the long run
DraftInputsLong == { P("commit", <<Item("line-1", LOther, TRUE, <<>>)>>, <<>>) }

PlanInputs == {<<"a", " ">>}

\* reflections.md of a new workspace: missing, the default header, or a
\* user-written title without the separator
InitialReflections == {<<>>, DefaultHeader, <<TextPiece>>}

FailChoices == {{}} \cup {{f} : f \in Failures} \cup {Failures}

\* ------------------------------------------------------------ focus.json
\* FocusState(): no active session, no history; active_session is a
\* sequence holding the session, empty for None
NoFocus == [active_session |-> <<>>, history |-> <<>>]

\* FocusSession at start; times are seconds of the wall clock, NoNum is
\* None, elapsed_minutes is held in tenths of a minute
FocusSession(task_id, task_label, started_at, planned_minutes) ==
  [task_id |-> task_id, task_label |-> task_label, started_at |-> started_at,
   planned_minutes |-> planned_minutes, ended_at |-> NoNum,
   elapsed_minutes |-> 0, completed |-> FALSE, interruptions |-> 0,
   notes |-> ""]

\* FocusSession.to_dict followed by FocusSession.from_dict
FocusSessionRoundTrip(x) ==
  [task_id |-> x.task_id, task_label |-> x.task_label,
   started_at |-> x.started_at, planned_minutes |-> x.planned_minutes,
   ended_at |-> x.ended_at, elapsed_minutes |-> x.elapsed_minutes,
   completed |-> x.completed, interruptions |-> x.interruptions,
   notes |-> x.notes]

\* _save_focus_state followed by _load_focus_state
FocusRoundTrip(st) ==
  [active_session |-> [i \in 1..Len(st.active_session) |->
                         FocusSessionRoundTrip(st.active_session[i])],
   history |-> [i \in 1..Len(st.history) |-> FocusSessionRoundTrip(st.history[i])]]

\* the whole seconds up to 180 s with seconds / 60 halfway between two
\* tenths whose binary quotient lies above the half and rounds up
HalfwayUp == {3, 27, 33, 39, 45, 63, 81, 93, 105, 111, 141, 147, 165, 171, 177}

\* round(seconds / 60, 1), in tenths of a minute
RoundTenths(seconds) ==
  IF seconds % 6 < 3 THEN seconds \div 6
  ELSE IF seconds % 6 > 3 THEN seconds \div 6 + 1
  ELSE IF seconds \in HalfwayUp THEN seconds \div 6 + 1
  ELSE seconds \div 6

\* int(elapsed_minutes): truncation of the tenths to whole minutes
IntMinutes(tenths) == tenths \div 10

\* round(elapsed_minutes): the nearest whole minute, halves to the even one
RoundMinutes(tenths) ==
  IF tenths % 10 < 5 THEN tenths \div 10
  ELSE IF tenths % 10 > 5 THEN tenths \div 10 + 1
  ELSE IF (tenths \div 10) % 2 = 0 THEN tenths \div 10
  ELSE tenths \div 10 + 1

\* a start that replaces the session in progress
start_session_replace(st, task_id, task_label, planned_minutes, t) ==
  [error |-> "",
   state |-> [st EXCEPT !.active_session =
                <<FocusSession(task_id, task_label, t, planned_minutes)>>]]

\* start_session: the error raised ("" for none) and focus.json afterwards
start_session(st, task_id, task_label, planned_minutes, t) ==
  IF st.active_session # <<>>
  THEN [error |-> "A focus session is already active. Stop it first.", state |-> st]
  ELSE [error |-> "",
        state |-> FocusRoundTrip(
                    [st EXCEPT !.active_session =
                       <<FocusSession(task_id, task_label, t, planned_minutes)>>])]

\* the session stop_session returns
stopped_session(session, completed, notes, t) ==
  [session EXCEPT !.ended_at = t, !.completed = completed, !.notes = notes,
                  !.elapsed_minutes = RoundTenths(t - session.started_at)]

\* a stop that files the session with a fresh interruption count
stop_session_recount(st, completed, notes, t) ==
  IF st.active_session = <<>>
  THEN [error |-> "No active focus session to stop.", state |-> st]
  ELSE [error |-> "",
        state |-> [active_session |-> <<>>,
                   history |-> Append(st.history,
                     [stopped_session(st.active_session[1], completed, notes, t)
                        EXCEPT !.interruptions = 0])]]

\* stop_session up to the save of focus.json: the error raised and
\* focus.json afterwards
stop_session(st, completed, notes, t) ==
  IF st.active_session = <<>>
  THEN [error |-> "No active focus session to stop.", state |-> st]
  ELSE [error |-> "",
        state |-> FocusRoundTrip(
                    [active_session |-> <<>>,
                     history |-> Append(st.history,
                       stopped_session(st.active_session[1], completed, notes, t))])]

\* stop_session, the best-effort stage: tasks.yaml afterwards
log_task_progress(tasks_file, session) ==
  IF session.elapsed_minutes > 0 /\ find_task(tasks_file, session.task_id) # 0
  THEN TasksFileRoundTrip(
         [tasks_file EXCEPT !["tasks"][find_task(tasks_file, session.task_id)] =
            update_task_progress(@, IntMinutes(session.elapsed_minutes))])
  ELSE tasks_file

\* an interruption that is counted twice
record_interruption_twice(st) ==
  IF st.active_session = <<>> THEN st
  ELSE [st EXCEPT !.active_session[1].interruptions = @ + 2]

\* record_interruption: focus.json afterwards
record_interruption(st) ==
  IF st.active_session = <<>> THEN st
  ELSE FocusRoundTrip([st EXCEPT !.active_session[1].interruptions = @ + 1])

\* --------------------------------------------------------- profile.yaml
TimeRange(start, end) == [start |-> start, end |-> end]

\* Profile(): a missing profile.yaml
DefaultProfile == [work_blocks |-> <<>>, fixed_routines |-> <<>>,
                   weekly_fixed_events |-> <<>>]

\* FixedRoutine and WeeklyEvent; names are texts, times are minutes after
\* midnight, weekday tags are lower case as WeeklyEvent.from_dict leaves them
FixedRoutine(name, window) == [name |-> name, window |-> window]
WeeklyEvent(name, day, time, commute_min_each_way) ==
  [name |-> name, day |-> day, time |-> time,
   commute_min_each_way |-> commute_min_each_way]

\* no schedule generated yet
NoSchedule == [date |-> NoDate, blocks |-> <<>>, unscheduled_tasks |-> <<>>,
               total_work_minutes |-> 0, utilization_pct |-> <<0, 1>>]

\* ------------------------------------------------------------ scheduler
BUFFER_MINUTES == 5
DAY_NAMES == <<"mon", "tue", "wed", "thu", "fri", "sat", "sun">>

\* TimeRange.duration_minutes
duration_minutes(r) == Max(0, r.end - r.start)

\* TimeRange.overlaps
overlaps(a, b) == a.start < b.end /\ b.start < a.end

\* TimeRange.subtract: what remains of a after removing b
subtract(a, b) ==
  IF ~overlaps(a, b) THEN <<TimeRange(a.start, a.end)>>
  ELSE (IF a.start < b.start THEN <<TimeRange(a.start, b.start)>> ELSE <<>>)
       \o (IF b.end < a.end THEN <<TimeRange(b.end, a.end)>> ELSE <<>>)

\* _time_add_minutes: clamped to 00:00..23:59
time_add_minutes(t, minutes) == Max(0, Min(t + minutes, 23 * 60 + 59))

\* the windows when the commute of the events is left out
blocked_ranges_no_commute(pr, weekday) ==
  [i \in 1..Len(pr.fixed_routines) |-> pr.fixed_routines[i].window]
  \o [i \in 1..Len(SelectSeq(pr.weekly_fixed_events, LAMBDA e : e.day = weekday)) |->
        SelectSeq(pr.weekly_fixed_events, LAMBDA e : e.day = weekday)[i].time]

\* the windows compute_available_slots removes: every routine, then the
\* events of the weekday with their commute on both sides
blocked_ranges(pr, weekday) ==
  [i \in 1..Len(pr.fixed_routines) |-> pr.fixed_routines[i].window]
  \o [i \in 1..Len(SelectSeq(pr.weekly_fixed_events, LAMBDA e : e.day = weekday)) |->
        TimeRange(
          time_add_minutes(SelectSeq(pr.weekly_fixed_events, LAMBDA e : e.day = weekday)[i].time.start,
                           0 - SelectSeq(pr.weekly_fixed_events, LAMBDA e : e.day = weekday)[i].commute_min_each_way),
          time_add_minutes(SelectSeq(pr.weekly_fixed_events, LAMBDA e : e.day = weekday)[i].time.end,
                           SelectSeq(pr.weekly_fixed_events, LAMBDA e : e.day = weekday)[i].commute_min_each_way))]

\* one blocked window removed from every slot
RECURSIVE subtract_from_slots(_, _)
subtract_from_slots(slots, block) ==
  IF slots = <<>> THEN <<>>
  ELSE subtract(Head(slots), block) \o subtract_from_slots(Tail(slots), block)

\* every blocked window removed, in order
RECURSIVE remove_blocked(_, _)
remove_blocked(slots, blocked) ==
  IF blocked = <<>> THEN slots
  ELSE remove_blocked(subtract_from_slots(slots, Head(blocked)), Tail(blocked))

\* list.sort(key = start): x goes behind the elements that start no later
RECURSIVE insert_by_start(_, _)
insert_by_start(sorted, x) ==
  IF sorted = <<>> THEN <<x>>
  ELSE IF x.start < Head(sorted).start THEN <<x>> \o sorted
  ELSE <<Head(sorted)>> \o insert_by_start(Tail(sorted), x)

RECURSIVE sort_by_start(_, _)
sort_by_start(seq, out) ==
  IF seq = <<>> THEN out
  ELSE sort_by_start(Tail(seq), insert_by_start(out, Head(seq)))

\* the slots of at least 10 minutes
keep_slots(slots) == SelectSeq(slots, LAMBDA x : duration_minutes(x) >= 10)

\* compute_available_slots
compute_available_slots(pr, target_date) ==
  sort_by_start(
    keep_slots(remove_blocked(pr.work_blocks,
                              blocked_ranges(pr, DAY_NAMES[Weekday(target_date) + 1]))),
    <<>>)

\* compute_task_priority_score, as the fraction <<numerator, denominator>>;
\* hours are held in minutes, so remaining_hours / days_left * 5 is
\* remaining / (12 * days_left)
compute_task_priority_score(task, day) ==
  IF task.type = "deadline_project" /\ task.deadline # NoDate
  THEN IF task.remaining_hours # NoNum /\ task.remaining_hours > 0
       THEN <<task.priority * 12 * Max(1, task.deadline - day) + task.remaining_hours,
              12 * Max(1, task.deadline - day)>>
       ELSE <<task.priority, 1>>
  ELSE IF task.type = "deadline_project" /\ task.remaining_hours # NoNum
  THEN IF task.remaining_hours > 0 THEN <<task.priority + 2, 1>> ELSE <<task.priority, 1>>
  ELSE IF task.type = "weekly_budget" /\ task.target_hours_per_week # NoNum
          /\ task.target_hours_per_week > 0
  THEN <<task.priority * task.target_hours_per_week
           + 3 * Max(0, task.target_hours_per_week - task.hours_this_week),
         task.target_hours_per_week>>
  ELSE IF task.type = "daily_ritual" THEN <<task.priority + 1, 1>>
  ELSE <<task.priority, 1>>

\* a > b on scores
ScoreAbove(a, b) == a[1] * b[2] > b[1] * a[2]

\* the minutes a task needs today
minutes_needed(task) ==
  IF task.type = "daily_ritual"
  THEN IF task.estimated_minutes_per_day # NoNum /\ task.estimated_minutes_per_day # 0
       THEN task.estimated_minutes_per_day ELSE 15
  ELSE IF task.type = "deadline_project" THEN task.max_chunk_minutes
  ELSE IF task.type = "weekly_budget"
          /\ task.target_hours_per_week # NoNum /\ task.target_hours_per_week # 0
  THEN Max(Min(task.max_chunk_minutes,
               Max(0, task.target_hours_per_week - task.hours_this_week) \div 3),
           task.min_chunk_minutes)
  ELSE task.min_chunk_minutes

\* a sort that puts x in front of the elements of equal score
RECURSIVE insert_by_score_ties_first(_, _)
insert_by_score_ties_first(sorted, x) ==
  IF sorted = <<>> THEN <<x>>
  ELSE IF ~ScoreAbove(Head(sorted).score, x.score) THEN <<x>> \o sorted
  ELSE <<Head(sorted)>> \o insert_by_score_ties_first(Tail(sorted), x)

\* scored.sort(key = score, reverse = True): x goes behind the elements of
\* equal or higher score
RECURSIVE insert_by_score(_, _)
insert_by_score(sorted, x) ==
  IF sorted = <<>> THEN <<x>>
  ELSE IF ScoreAbove(x.score, Head(sorted).score) THEN <<x>> \o sorted
  ELSE <<Head(sorted)>> \o insert_by_score(Tail(sorted), x)

RECURSIVE sort_by_score(_, _)
sort_by_score(seq, out) ==
  IF seq = <<>> THEN out
  ELSE sort_by_score(Tail(seq), insert_by_score(out, Head(seq)))

\* task_needs: the active tasks in score order with the minutes each needs
task_needs(tasks_file, day) ==
  SelectSeq(
    sort_by_score(
      [i \in 1..Len(SelectSeq(tasks_file.tasks, LAMBDA t : t.status = "active")) |->
         [score |-> compute_task_priority_score(
                      SelectSeq(tasks_file.tasks, LAMBDA t : t.status = "active")[i], day),
          task |-> SelectSeq(tasks_file.tasks, LAMBDA t : t.status = "active")[i],
          needed |-> minutes_needed(
                       SelectSeq(tasks_file.tasks, LAMBDA t : t.status = "active")[i])]],
      <<>>),
    LAMBDA n : n.needed > 0)

ScheduledBlock(start, end, task_id, task_title, duration, block_type) ==
  [start |-> start, end |-> end, task_id |-> task_id, task_title |-> task_title,
   duration_minutes |-> duration, block_type |-> block_type]

\* a chunk that is not limited by what the task still needs
chunk_size_ignores_remaining(task, remaining, available) ==
  Min(available, task.max_chunk_minutes)

\* the chunk a task is given in a slot with `available` minutes left
chunk_size(task, remaining, available) ==
  Min(Min(remaining, available), task.max_chunk_minutes)

\* the walk over the slot cursors for one task, from slot i on
RECURSIVE place_task(_, _, _, _, _, _)
place_task(task, cursors, i, remaining, blocks, allocated) ==
  IF i > Len(cursors) \/ remaining <= 0
  THEN [cursors |-> cursors, blocks |-> blocks, allocated |-> allocated]
  ELSE IF cursors[i].end - cursors[i].start < task.min_chunk_minutes
          \/ chunk_size(task, remaining, cursors[i].end - cursors[i].start)
               < task.min_chunk_minutes
  THEN place_task(task, cursors, i + 1, remaining, blocks, allocated)
  ELSE place_task(
         task,
         [cursors EXCEPT ![i].start =
            time_add_minutes(
              time_add_minutes(@, chunk_size(task, remaining, cursors[i].end - cursors[i].start)),
              BUFFER_MINUTES)],
         i + 1,
         remaining - chunk_size(task, remaining, cursors[i].end - cursors[i].start),
         Append(blocks,
                ScheduledBlock(
                  cursors[i].start,
                  time_add_minutes(cursors[i].start,
                    chunk_size(task, remaining, cursors[i].end - cursors[i].start)),
                  task.id, task.title,
                  chunk_size(task, remaining, cursors[i].end - cursors[i].start),
                  "task")),
         TRUE)

\* a carryover list that takes the tasks that were given a block
unscheduled_after_inverted(unscheduled, task, placed) ==
  IF placed.allocated THEN Append(unscheduled, task.id) ELSE unscheduled

\* unscheduled after one task was walked
unscheduled_after(unscheduled, task, placed) ==
  IF placed.allocated THEN unscheduled ELSE Append(unscheduled, task.id)

\* the greedy placement of every task: the task blocks and the carryover
RECURSIVE place_all(_, _, _, _)
place_next(needs, placed, unscheduled) ==
  place_all(Tail(needs), placed.cursors, placed.blocks,
            unscheduled_after(unscheduled, Head(needs).task, placed))

place_all(needs, cursors, blocks, unscheduled) ==
  IF needs = <<>> THEN [blocks |-> blocks, unscheduled |-> unscheduled]
  ELSE place_next(needs,
                  place_task(Head(needs).task, cursors, 1, Head(needs).needed, blocks, FALSE),
                  unscheduled)

\* str.upper() / str.title() / str.replace() on the letters of the model's names
UpperChar(c) == CASE c = "g" -> "G" [] c = "m" -> "M" [] OTHER -> c
Title(name) ==
  [i \in 1..Len(name) |->
     IF i = 1 \/ name[i - 1] \in {" ", "_"}
     THEN UpperChar(IF name[i] = "_" THEN " " ELSE name[i])
     ELSE LowerChar(IF name[i] = "_" THEN " " ELSE name[i])]
Slug(name) == [i \in 1..Len(name) |-> IF LowerChar(name[i]) = " " THEN "-" ELSE LowerChar(name[i])]

\* the informational blocks of the routines and of the weekday's events
routine_blocks(pr, weekday) ==
  [i \in 1..Len(pr.fixed_routines) |->
     ScheduledBlock(pr.fixed_routines[i].window.start, pr.fixed_routines[i].window.end,
                    pr.fixed_routines[i].name, Title(pr.fixed_routines[i].name),
                    duration_minutes(pr.fixed_routines[i].window), "routine")]
  \o [i \in 1..Len(SelectSeq(pr.weekly_fixed_events, LAMBDA e : e.day = weekday)) |->
        ScheduledBlock(
          SelectSeq(pr.weekly_fixed_events, LAMBDA e : e.day = weekday)[i].time.start,
          SelectSeq(pr.weekly_fixed_events, LAMBDA e : e.day = weekday)[i].time.end,
          Slug(SelectSeq(pr.weekly_fixed_events, LAMBDA e : e.day = weekday)[i].name),
          SelectSeq(pr.weekly_fixed_events, LAMBDA e : e.day = weekday)[i].name,
          duration_minutes(SelectSeq(pr.weekly_fixed_events, LAMBDA e : e.day = weekday)[i].time),
          "event")]

RECURSIVE SumDurations(_)
SumDurations(seq) ==
  IF seq = <<>> THEN 0 ELSE duration_minutes(Head(seq)) + SumDurations(Tail(seq))

RECURSIVE SumBlockMinutes(_)
SumBlockMinutes(blocks) ==
  IF blocks = <<>> THEN 0 ELSE Head(blocks).duration_minutes + SumBlockMinutes(Tail(blocks))

\* the DaySchedule built from the placement; utilization_pct is the
\* fraction <<numerator, denominator>>
day_schedule(pr, target_date, slots, placed) ==
  [date |-> target_date,
   blocks |-> sort_by_start(placed.blocks
                            \o routine_blocks(pr, DAY_NAMES[Weekday(target_date) + 1]), <<>>),
   unscheduled_tasks |-> placed.unscheduled,
   total_work_minutes |-> SumBlockMinutes(placed.blocks),
   utilization_pct |-> IF SumDurations(slots) > 0
                       THEN <<SumBlockMinutes(placed.blocks) * 100, SumDurations(slots)>>
                       ELSE <<0, 1>>]

\* generate_schedule
generate_schedule(pr, tasks_file, target_date) ==
  day_schedule(pr, target_date, compute_available_slots(pr, target_date),
               place_all(task_needs(tasks_file, target_date),
                         compute_available_slots(pr, target_date), <<>>, <<>>))

\* ------------------------------------------------------------- results
Ret(op, outcome, ok, reason, already, rating, streak, updates, failed) ==
  [op |-> op, outcome |-> outcome, ok |-> ok, reason |-> reason,
   already_finalized |-> already, rating |-> rating, streak |-> streak,
   task_updates |-> updates, failed |-> failed]

NoCall == Ret(None, None, FALSE, "", FALSE, None, 0, <<>>, {})
Done(op) == Ret(op, "returned", TRUE, "", FALSE, None, 0, <<>>, {})

Init ==
  /\ today = FirstDay
  /\ draft = NoDraft
  /\ state = DefaultState
  /\ reflections \in InitialReflections
  /\ tasks = InitialTasks
  /\ analytics = NoAnalytics
  /\ agent_context = NoAgentContext
  /\ plan = NoFile
  /\ plan_prev = NoFile
  /\ tui = NoTui
  /\ ret = NoCall
  /\ crashes = 0
  /\ pending = <<>>
  /\ counted = {}
  /\ finalized = {}
  /\ focus = NoFocus
  /\ now = 0
  /\ profile = DefaultProfile
  /\ schedule = NoSchedule

\* ------------------------------------------------------------- actions
\* the days before today on which no finalization wrote a reflection entry
Skipped ==
  Cardinality({d \in FirstDay..(today - 1) :
                 \A i \in 1..Len(reflections) : reflections[i].day # d})

\* midnight passes
AdvanceDay(last, max_skips) ==
  /\ today < last
  /\ \/ state.last_finalized_date = today
     \/ Skipped < max_skips
  /\ today' = today + 1
  /\ ret' = NoCall
  /\ pending' = <<>>
  /\ UNCHANGED <<files, plans, tui, crashes, counted, finalized, aux>>

\* POST /api/checkin_draft
api_checkin_draft(inputs) ==
  \E payload \in inputs :
    LET mode_in == IF payload.mode \in {"commit", "recovery"}
                   THEN payload.mode ELSE "commit"
    IN /\ draft' = Draft(today, mode_in, payload.items, payload.reflection)
       /\ ret' = Done("api_checkin_draft")
       /\ pending' = <<>>
       /\ UNCHANGED <<today, state, reflections, tasks, analytics, agent_context,
                      plans, tui, crashes, counted, finalized, aux>>

\* POST /save_plan
PlanRet(op, args) ==
  [op |-> op, outcome |-> "returned", ok |-> TRUE, reason |-> "",
   already_finalized |-> FALSE, rating |-> None, streak |-> 0,
   task_updates |-> <<>>, failed |-> {}, args |-> args]

SavePlan(inputs) ==
  \E plan_md \in inputs :
    /\ plan_prev' = IF plan.exists THEN File(plan.text) ELSE plan_prev
    /\ plan' = File(RStrip(plan_md) \o <<"\n">>)
    /\ ret' = PlanRet("save_plan", plan_md)
    /\ pending' = <<>>
    /\ UNCHANGED <<today, files, tui, crashes, counted, finalized, aux>>

save_plan == SavePlan(PlanInputs)

\* the effect of one finalize_day call whose outcome is f; `clean` is the
\* outcome of the same call without interruption or failing stage
finalize_call(crash, fail, f, after, clean) ==
  /\ IF f.gate # "run"
     THEN /\ crashes' = crashes
          /\ ret' = IF f.gate = "already_finalized"
                    THEN Ret("finalize_day", "returned", TRUE, "", TRUE, None, 0, <<>>, {})
                    ELSE Ret("finalize_day", "returned", FALSE, f.gate, FALSE, None, 0, <<>>, {})
          /\ pending' = IF ret.outcome = "crashed" THEN pending ELSE <<>>
          /\ UNCHANGED <<files, counted, finalized>>
     ELSE /\ crashes' = IF crash < 7 THEN crashes + 1 ELSE crashes
          /\ draft' = after.draft
          /\ state' = after.state
          /\ reflections' = after.refl
          /\ tasks' = after.tasks
          /\ analytics' = after.an
          /\ agent_context' = after.ag
          /\ counted' = IF write_points_passed(crash, fail) >= 2 /\ f.counts
                        THEN counted \cup {today} ELSE counted
          /\ finalized' = IF write_points_passed(crash, fail) = 7
                          THEN finalized \cup {today} ELSE finalized
          /\ ret' = IF write_points_passed(crash, fail) = 7
                    THEN Ret("finalize_day", "returned", TRUE, "", FALSE,
                             f.rating, f.streak, f.task_updates, fail)
                    ELSE Ret("finalize_day", "crashed", FALSE, "", FALSE, None, 0, <<>>, fail)
          /\ pending' = IF ret.outcome = "crashed" THEN pending
                        ELSE IF write_points_passed(crash, fail) < 7 THEN <<clean>>
                        ELSE <<>>

finalize_outcome(crash, fail, f) ==
  finalize_call(crash, fail, f, f.stages[write_points_passed(crash, fail) + 1],
                IF crash < 7
                THEN Last(finalize_day(today, Workspace, plan, plan_prev, {}).stages)
                ELSE Workspace)

\* finalize_day() called; crash = 7 lets it return, crash = k < 7 stops it
\* (process killed, or a fatal error raised) when k write points are passed;
\* an interrupted call is taken without failing best-effort stages, and a
\* call that stops at the gate has nothing to interrupt
FinalizeDay(crash_points, fail_choices) ==
  \E crash \in crash_points, fail \in fail_choices :
    /\ UNCHANGED <<today, plans, tui, aux>>
    /\ crash < 7 => (fail = {} /\ crashes < MaxCrashes)
    /\ finalize_gate(today, draft, state) # "run" => (crash = 7 /\ fail = {})
    /\ finalize_outcome(crash, fail, finalize_day(today, Workspace, plan, plan_prev, fail))

\* ----------------------------------------------------------- TUI session
\* _load_draft: the stored draft when it is today's, else a fresh one
load_draft_tui == IF draft.day # today THEN Draft(today, "commit", <<>>, <<>>) ELSE draft

\* MoltFocusApp.__init__ / _load_data: the TUI starts and loads the draft
tui_start ==
  /\ tui = NoTui
  /\ tui' = <<load_draft_tui>>
  /\ ret' = Done("tui_start")
  /\ pending' = <<>>
  /\ UNCHANGED <<today, files, plans, crashes, counted, finalized, aux>>

\* a change in the TUI updates the draft in memory; _auto_save writes it
tui_save(op, new_draft) ==
  /\ tui # NoTui
  /\ tui' = <<new_draft>>
  /\ draft' = new_draft
  /\ ret' = Done(op)
  /\ pending' = <<>>
  /\ UNCHANGED <<today, state, reflections, tasks, analytics, agent_context,
                 plans, crashes, counted, finalized, aux>>

\* MoltFocusApp.action_toggle_mode
action_toggle_mode ==
  /\ tui # NoTui
  /\ LET current == IF tui[1].mode = None THEN "commit" ELSE tui[1].mode
     IN tui_save("action_toggle_mode",
                 [tui[1] EXCEPT !.mode = IF current = "commit" THEN "recovery" ELSE "commit"])

\* MoltFocusApp._on_reflection_change
on_reflection_change ==
  /\ tui # NoTui
  /\ \E text \in {<<>>, ReflLong} :
       /\ text # tui[1].reflection
       /\ tui_save("_on_reflection_change", [tui[1] EXCEPT !.reflection = text])

\* MoltFocusApp.action_quit_app: a last save, then exit
action_quit_app ==
  /\ tui # NoTui
  /\ tui' = NoTui
  /\ draft' = tui[1]
  /\ ret' = Done("action_quit_app")
  /\ pending' = <<>>
  /\ UNCHANGED <<today, state, reflections, tasks, analytics, agent_context,
                 plans, crashes, counted, finalized, aux>>

\* ------------------------------------------------------------ task API
\* the request bodies of POST /api/tasks
CreateInputs ==
  { [id |-> "notes", title |-> <<"N">>, type |-> "open_ended"],
    [id |-> "paper", title |-> <<"P">>, type |-> "open_ended"],
    [id |-> "notes", type |-> "open_ended"] }

\* the request bodies of PUT /api/tasks/{task_id}
UpdateInputs ==
  { [priority |-> 0], [id |-> "work"] }

\* the task ids a request path names
TaskIds == {"paper", "work", "notes"}

\* what a task API call returned: ok, or the errors of the 400 / 404
TaskRet(op, errors) == Ret(op, "returned", errors = {}, "", FALSE, None, 0, <<>>, errors)

\* a task API call that leaves tasks.yaml as `saved`
task_api(op, errors, saved) ==
  /\ tasks' = IF errors = {} THEN TasksFileRoundTrip(saved) ELSE tasks
  /\ ret' = TaskRet(op, errors)
  /\ pending' = <<>>

\* POST /api/tasks
api_create_task ==
  \E payload \in CreateInputs :
    /\ Len(tasks.tasks) < MaxTasks
    /\ UNCHANGED <<daily, focus, now, profile, schedule>>
    /\ task_api("api_create_task", create_task(tasks, payload).errors,
                create_task(tasks, payload).tasks_file)

\* PUT /api/tasks/{task_id}
api_update_task_rest ==
  \E task_id \in TaskIds, payload \in UpdateInputs :
    /\ UNCHANGED <<daily, focus, now, profile, schedule>>
    /\ task_api("api_update_task_rest", update_task(tasks, task_id, payload).errors,
                update_task(tasks, task_id, payload).tasks_file)

\* DELETE /api/tasks/{task_id}
api_delete_task ==
  \E task_id \in TaskIds :
    /\ Len(tasks.archived) < MaxArchived
    /\ UNCHANGED <<daily, focus, now, profile, schedule>>
    /\ task_api("api_delete_task",
                IF delete_task(tasks, task_id, TRUE).deleted THEN {} ELSE {"Task not found"},
                delete_task(tasks, task_id, TRUE).tasks_file)

\* --------------------------------------------------------- focus timer
\* the arguments of start_session and of stop_session
StartInputs == {"paper", "gone"}
StopInputs == {<<FALSE, "">>, <<TRUE, "n">>}

\* the seconds that pass between two calls
Steps == {30, 57}

\* what a focus call returned: the session (or none), or the error raised
FocusRet(op, error, args, session) ==
  [op |-> op, outcome |-> IF error = "" THEN "returned" ELSE "raised",
   ok |-> error = "", reason |-> error, already_finalized |-> FALSE,
   rating |-> None, streak |-> 0, task_updates |-> <<>>, failed |-> {},
   args |-> args, session |-> session]

\* time passes
Tick ==
  \E d \in Steps :
    /\ now + d <= MaxClock
    /\ now' = now + d
    /\ ret' = NoCall
    /\ UNCHANGED <<daily, tasks, pending, focus, profile, schedule>>

\* start_session(task_id, task_label, 25)
StartSession ==
  \E task_id \in StartInputs :
    /\ focus.active_session = <<>> => Len(focus.history) < MaxSessions
    /\ focus' = start_session(focus, task_id, <<>>, 25, now).state
    /\ ret' = FocusRet("start_session",
                       start_session(focus, task_id, <<>>, 25, now).error,
                       <<task_id, <<>>, 25>>,
                       focus'.active_session)
    /\ pending' = <<>>
    /\ UNCHANGED <<daily, tasks, now, profile, schedule>>

\* stop_session(completed, notes)
StopSession ==
  \E args \in StopInputs :
    /\ focus' = stop_session(focus, args[1], args[2], now).state
    /\ tasks' = IF focus.active_session = <<>> THEN tasks
                ELSE log_task_progress(tasks, focus'.history[Len(focus'.history)])
    /\ ret' = FocusRet("stop_session",
                       stop_session(focus, args[1], args[2], now).error, args,
                       IF focus.active_session = <<>> THEN <<>>
                       ELSE <<focus'.history[Len(focus'.history)]>>)
    /\ pending' = <<>>
    /\ UNCHANGED <<daily, now, profile, schedule>>

\* record_interruption()
RecordInterruption ==
  /\ focus.active_session # <<>> => focus.active_session[1].interruptions < MaxInterruptions
  /\ focus' = record_interruption(focus)
  /\ ret' = FocusRet("record_interruption", "", <<>>, focus'.active_session)
  /\ pending' = <<>>
  /\ UNCHANGED <<daily, tasks, now, profile, schedule>>

\* ------------------------------------------------------------ scheduler
\* the times of day the profiles of the model are made of: 09:00, 09:55,
\* 10:00, 11:00
Grid == {540, 595, 600, 660}
WorkRanges == {r \in {TimeRange(a, b) : a \in Grid, b \in Grid} : r.start < r.end}

\* profile.yaml: up to two different work blocks, a routine, a weekly event
ProfileInputs ==
  { [work_blocks |-> w, fixed_routines |-> r, weekly_fixed_events |-> e] :
      w \in {<<>>} \cup {<<a>> : a \in WorkRanges}
              \cup ({<<a, b>> : a \in WorkRanges, b \in WorkRanges}
                      \ {<<a, a>> : a \in WorkRanges}),
      r \in { <<>>,
              <<FixedRoutine(<<"g", "y", "m">>, TimeRange(595, 600))>>,
              <<FixedRoutine(<<"g", "y", "m">>, TimeRange(540, 595))>> },
      e \in { <<>>,
              <<WeeklyEvent(<<"M", "t", "g">>, "mon", TimeRange(600, 660), 5)>>,
              <<WeeklyEvent(<<"M", "t", "g">>, "tue", TimeRange(540, 595), 0)>> } }

\* a deadline_project without a deadline date
DeadlineTask(id, title, priority, min_chunk, max_chunk) ==
  [Task(id, title, "deadline_project", priority, 180, NoNum, 0, NoNum)
     EXCEPT !.min_chunk_minutes = min_chunk, !.max_chunk_minutes = max_chunk]

\* tasks.yaml: the initial list; two deadline projects of equal score that
\* take whole hours; a paused task and two tasks in ascending score
SchedTaskInputs ==
  { InitialTasks,
    [InitialTasks EXCEPT !.tasks =
       << DeadlineTask("a", <<"A">>, 5, 60, 180), DeadlineTask("b", <<"B">>, 5, 60, 180) >>],
    [InitialTasks EXCEPT !.tasks =
       << [DeadlineTask("p", <<"P">>, 9, 25, 60) EXCEPT !.status = "paused"],
          DeadlineTask("a", <<"A">>, 3, 25, 60), DeadlineTask("b", <<"B">>, 9, 25, 60) >>] }

\* what compute_available_slots returned
SlotsRet(slots) ==
  [op |-> "compute_available_slots", outcome |-> "returned", ok |-> TRUE,
   reason |-> "", already_finalized |-> FALSE, rating |-> None, streak |-> 0,
   task_updates |-> <<>>, failed |-> {}, slots |-> slots]

InitSched ==
  /\ today = FirstDay
  /\ draft = NoDraft
  /\ state = DefaultState
  /\ reflections = <<>>
  /\ tasks \in SchedTaskInputs
  /\ analytics = NoAnalytics
  /\ agent_context = NoAgentContext
  /\ plan = NoFile
  /\ plan_prev = NoFile
  /\ tui = NoTui
  /\ ret = NoCall
  /\ crashes = 0
  /\ pending = <<>>
  /\ counted = {}
  /\ finalized = {}
  /\ focus = NoFocus
  /\ now = 0
  /\ profile \in ProfileInputs
  /\ schedule = NoSchedule

\* compute_available_slots(profile, today)
ComputeAvailableSlots ==
  /\ ret' = SlotsRet(compute_available_slots(profile, today))
  /\ pending' = <<>>
  /\ UNCHANGED <<daily, tasks, focus, now, profile, schedule>>

\* generate_schedule(profile, tasks_file, today)
GenerateSchedule ==
  /\ schedule' = generate_schedule(profile, tasks, today)
  /\ ret' = Done("generate_schedule")
  /\ pending' = <<>>
  /\ UNCHANGED <<daily, tasks, focus, now, profile>>

\* ------------------------------------------------------- specifications
LastDay(n) == FirstDay + n - 1

\* the daily loop: check in, edit the plan, finalize, next day
Next ==
  \/ api_checkin_draft(DraftInputs)
  \/ save_plan
  \/ FinalizeDay({7}, {{}})
  \/ AdvanceDay(LastDay(NumDays), NumDays)

Spec == Init /\ [][Next]_vars

\* the daily loop with interrupted calls and failing best-effort stages
NextFault ==
  \/ api_checkin_draft(DraftInputsFault)
  \/ FinalizeDay(0..7, FailChoices)
  \/ AdvanceDay(LastDay(NumDaysFault), NumDaysFault)

SpecFault == Init /\ [][NextFault]_vars

\* the web UI and a TUI session on the same workspace
NextTui ==
  \/ api_checkin_draft(DraftInputsTui)
  \/ FinalizeDay({7}, {{}})
  \/ tui_start
  \/ action_toggle_mode
  \/ on_reflection_change
  \/ action_quit_app
  \/ AdvanceDay(LastDay(NumDaysTui), NumDaysTui)

SpecTui == Init /\ [][NextTui]_vars

\* the streak over several days, with days skipped
NextStreak ==
  \/ api_checkin_draft(DraftInputsStreak)
  \/ FinalizeDay({7}, {{}})
  \/ AdvanceDay(LastDay(NumDaysStreak), NumDaysStreak)

SpecStreak == Init /\ [][NextStreak]_vars

\* more days than the history keeps
NextLong ==
  \/ api_checkin_draft(DraftInputsLong)
  \/ FinalizeDay({7}, {{}})
  \/ AdvanceDay(LastDay(NumDaysLong), MaxSkips)

SpecLong == Init /\ [][NextLong]_vars

\* the task API
\* core.delete_task called on the loaded tasks.yaml, saved when it returns
\* True
DeleteTask ==
  \E task_id \in TaskIds, archive \in BOOLEAN :
    /\ archive => Len(tasks.archived) < MaxArchived
    /\ tasks' = IF delete_task(tasks, task_id, archive).deleted
                THEN TasksFileRoundTrip(delete_task(tasks, task_id, archive).tasks_file)
                ELSE tasks
    /\ ret' = [TaskRet("delete_task", {}) EXCEPT
                 !.ok = delete_task(tasks, task_id, archive).deleted,
                 !.task_updates = <<task_id, archive>>]
    /\ pending' = <<>>
    /\ UNCHANGED <<daily, focus, now, profile, schedule>>

NextTasks ==
  \/ api_create_task
  \/ api_update_task_rest
  \/ api_delete_task
  \/ DeleteTask

SpecTasks == Init /\ [][NextTasks]_vars

\* the focus timer
NextFocus ==
  \/ Tick
  \/ StartSession
  \/ StopSession
  \/ RecordInterruption

SpecFocus == Init /\ [][NextFocus]_vars

\* the scheduler on the profiles and task lists of the model
NextSched ==
  \/ ComputeAvailableSlots
  \/ GenerateSchedule
  \/ AdvanceDay(LastDay(NumDaysTui), NumDaysTui)

SpecSched == InitSched /\ [][NextSched]_vars

\* ------------------------------------------------------------ properties
\* the most recent call was finalize_day and it returned
Returned == ret.op = "finalize_day" /\ ret.outcome = "returned"

\* ... with a rating, i.e. ok=true and not already_finalized
Finalized == Returned /\ ret.ok /\ ~ret.already_finalized

\* the history entry a finalization of today wrote
TodayEntry == state.history[Len(state.history)]

\* the number of "## <date>" headings of day d in reflections.md
EntriesFor(d) ==
  Cardinality({i \in 1..Len(reflections) :
                 reflections[i].k = "entry" /\ reflections[i].day = d})

C2_RetryCompletes ==
  (Returned /\ ret.failed = {} /\ pending # <<>>)
    => /\ state = pending[1].state
       /\ reflections = pending[1].refl
       /\ tasks = pending[1].tasks
       /\ draft = pending[1].draft

\* C3: after a finalize_day that returns ok=true without already_finalized,
\* state.json holds lastFinalizedDate = today and the returned rating and
\* streak.
C3_StateRecordsResult ==
  Finalized => /\ state.last_finalized_date = today
               /\ state.last_rating = ret.rating
               /\ state.streak = ret.streak

C3_Witness == Finalized /\ ret.streak = 2 /\ ret.rating = "fair"

\* C4: when the stored draft's day is not today (or there is no draft file),
\* finalize_day returns ok=false with reason no-draft-for-today and writes no
\* file.
C4_NoDraftNoWrite ==
  [][(ret'.op = "finalize_day" /\ draft.day # today)
       => /\ ~ret'.ok /\ ret'.reason = "no-draft-for-today"
          /\ UNCHANGED files]_vars

\* yesterday's filled draft was refused today
C4_Witness ==
  /\ Returned /\ ret.reason = "no-draft-for-today"
  /\ draft.day = today - 1 /\ draft.items # <<>>

\* the number of consecutive days ending at d that are in `counted`
RECURSIVE RunLength(_)
RunLength(d) == IF d \in counted THEN 1 + RunLength(d - 1) ELSE 0

\* C5: the streak is the number of consecutive calendar days, ending at
\* lastStreakDate, on each of which a counted finalization took place, and
\* lastStreakDate is the latest such day.
C5_StreakIsRun ==
  IF counted = {}
  THEN state.streak = 0 /\ state.last_streak_date = NoDate
  ELSE /\ state.last_streak_date \in counted
       /\ \A d \in counted : d <= state.last_streak_date
       /\ state.streak = RunLength(state.last_streak_date)

\* a streak of two days that began after a gap
C5_Witness ==
  /\ state.streak = 2
  /\ (state.last_streak_date - 3) \in counted
  /\ (state.last_streak_date - 2) \notin counted

\* C6: the streak is never negative, and a finalization whose day does not
\* count leaves streak and lastStreakDate as they were.
C6_StreakKept ==
  /\ state.streak >= 0
  /\ [][/\ state'.streak >= 0
        /\ (ret'.op = "finalize_day" /\ ret'.ok /\ ~ret'.already_finalized
              /\ ~state'.history[Len(state'.history)].streak_counted)
             => /\ state'.streak = state.streak
                /\ state'.last_streak_date = state.last_streak_date]_vars

\* a day that did not count was finalized while a streak was running
C6_Witness == Finalized /\ ~TodayEntry.streak_counted /\ state.streak >= 1

HistoryDays == {state.history[i].day : i \in 1..Len(state.history)}

\* C7: state.history has at most one entry per day and at most 30 entries, is
\* sorted ascending by day, holds the most recently finalized day, and holds
\* the latest finalized days when there are more than 30.
C7_HistoryWindow ==
  /\ Len(state.history) <= HistoryCap
  /\ \A i, j \in 1..Len(state.history) :
       i < j => state.history[i].day < state.history[j].day
  /\ state.last_finalized_date # NoDate => state.last_finalized_date \in HistoryDays
  /\ HistoryDays \subseteq finalized
  /\ Cardinality(HistoryDays) = Min(HistoryCap, Cardinality(finalized))
  /\ \A d \in finalized \ HistoryDays : \A e \in HistoryDays : d < e

\* more days were finalized than the history keeps
C7_Witness ==
  /\ Cardinality(finalized) > HistoryCap
  /\ Len(state.history) = HistoryCap
  /\ Finalized

\* C8: after a successful finalize_day the first "## <date>" heading of
\* reflections.md is today's, whatever reflections.md held before.
C8_FirstHeadingToday ==
  Finalized => /\ Headings(reflections) # <<>>
               /\ Headings(reflections)[1] = today

\* C9: after a successful finalize_day checkin_draft.json holds day = today,
\* no items and an empty reflection.
C9_DraftCleared ==
  Finalized => /\ draft.day = today
               /\ draft.items = <<>>
               /\ draft.reflection = <<>>

\* the finalized draft had done items and a note
C9_Witness == Finalized /\ ret.task_updates # <<>> /\ EntriesFor(today) = 1

\* C10: when best-effort stages of finalize_day fail, the call still returns
\* ok=true, state.json records today with the returned rating and streak,
\* today's reflection entry is present and the draft is cleared.
C10_FailuresSwallowed ==
  (ret.op = "finalize_day" /\ ret.failed # {})
    => /\ ret.outcome = "returned" /\ ret.ok
       /\ state.last_finalized_date = today
       /\ state.last_rating = ret.rating
       /\ state.streak = ret.streak
       /\ EntriesFor(today) >= 1
       /\ draft = ClearedDraft(today)

\* every best-effort stage failed and the day is finalized
C10_Witness == Finalized /\ ret.failed = Failures

\* the minutes that the update descriptions of one call credit to task id
RECURSIVE MinutesFor(_, _)
MinutesFor(updates, id) ==
  IF updates = <<>> THEN 0
  ELSE (IF Head(updates)[1] = id THEN Head(updates)[2] ELSE 0)
         + MinutesFor(Tail(updates), id)

\* the weekly reset is due: today is the week_start weekday of tasks.yaml and
\* state.weekStartDate is unset or at least 7 days before today
ResetDue ==
  /\ Weekday(today) = DAY_MAP(tasks.week_start)
  /\ (state.week_start_date = NoDate \/ today - state.week_start_date >= 7)

\* C11: when finalize_day runs while the weekly reset is due, then for every
\* draft the persisted tasks.yaml afterwards has, for every weekly_budget
\* task, hours_this_week equal to only the progress applied today, and the
\* persisted state.json has weekStartDate = today.
C11_WeeklyResetPersisted ==
  [][(ResetDue /\ ret'.op = "finalize_day" /\ ret'.ok /\ ~ret'.already_finalized)
       => /\ state'.week_start_date = today
          /\ \A i \in 1..Len(tasks'.tasks) :
               tasks'.tasks[i].type = "weekly_budget"
                 => tasks'.tasks[i].hours_this_week
                      = MinutesFor(ret'.task_updates, tasks'.tasks[i].id)]_vars

\* C12: after any sequence of create_task, update_task and delete_task on a
\* task list whose active ids are pairwise distinct, the active ids are
\* still pairwise distinct.
C12_ActiveIdsDistinct ==
  \A i, j \in 1..Len(tasks.tasks) : tasks.tasks[i].id = tasks.tasks[j].id => i = j

\* C13: the focus state never holds more than one active session:
\* start_session from idle makes the new session, started now, the active
\* one; start_session while a session is active fails with the 'already
\* active' error and leaves focus.json (active session and history)
\* unchanged.
C13_OneActiveSession ==
  [][ret'.op = "start_session" =>
       /\ Len(focus'.active_session) <= 1
       /\ IF focus.active_session = <<>>
          THEN /\ ret'.ok
               /\ focus'.active_session =
                    <<FocusSession(ret'.args[1], ret'.args[2], now, ret'.args[3])>>
               /\ focus'.history = focus.history
          ELSE /\ ret'.outcome = "raised"
               /\ ret'.reason = "A focus session is already active. Stop it first."
               /\ focus' = focus]_vars

\* a start was refused while a session with a recorded interruption was
\* active and an earlier session was in the history
C13_Witness ==
  /\ ret.op = "start_session" /\ ret.outcome = "raised"
  /\ focus.active_session # <<>>
  /\ focus.active_session[1].interruptions = 1
  /\ focus.history # <<>>

\* C14: stop_session in the active state makes the state idle and appends
\* exactly one entry to the history: the formerly active session with its
\* interruptions count preserved and endedAt, completed and notes set;
\* earlier entries are kept as they were; in the idle state it fails with
\* the 'No active' error and leaves focus.json unchanged.
C14_StopAppendsOne ==
  [][ret'.op = "stop_session" =>
       IF focus.active_session # <<>>
       THEN /\ ret'.ok
            /\ focus'.active_session = <<>>
            /\ Len(focus'.history) = Len(focus.history) + 1
            /\ SubSeq(focus'.history, 1, Len(focus.history)) = focus.history
            /\ focus'.history[Len(focus'.history)] =
                 [focus.active_session[1] EXCEPT
                    !.ended_at = now, !.completed = ret'.args[1],
                    !.notes = ret'.args[2],
                    !.elapsed_minutes = focus'.history[Len(focus'.history)].elapsed_minutes]
       ELSE /\ ret'.outcome = "raised"
            /\ ret'.reason = "No active focus session to stop."
            /\ focus' = focus]_vars

\* a second session, interrupted once, was stopped as completed with notes
C14_Witness ==
  /\ ret.op = "stop_session" /\ ret.ok
  /\ Len(focus.history) = 2
  /\ focus.history[2].interruptions = 1
  /\ focus.history[2].completed /\ focus.history[2].notes = "n"
  /\ focus.history[2].ended_at > focus.history[2].started_at

\* C15: record_interruption in the active state increases the active
\* session's interruptions by exactly 1 and changes nothing else; in the
\* idle state it returns none and writes nothing.
C15_InterruptionFrame ==
  [][ret'.op = "record_interruption" =>
       /\ UNCHANGED <<draft, state, reflections, tasks, analytics, agent_context, plans>>
       /\ IF focus.active_session # <<>>
          THEN /\ focus' = [focus EXCEPT !.active_session[1].interruptions = @ + 1]
               /\ ret'.session = focus'.active_session
          ELSE /\ ret'.session = <<>>
               /\ focus' = focus]_vars

\* an interruption was recorded on the session in progress, with an earlier
\* session in the history
C15_Witness ==
  /\ ret.op = "record_interruption"
  /\ ret.session # <<>>
  /\ ret.session[1].interruptions = 1
  /\ focus.history # <<>>

\* C16: after stop_session on a session whose taskId names an active task,
\* that task's progress has been updated with round(elapsedMinutes), the
\* elapsed minutes rounded to the nearest whole minute.
C16_ProgressRounded ==
  [][(/\ ret'.op = "stop_session" /\ ret'.ok
      /\ find_task(tasks, ret'.session[1].task_id) # 0)
       => tasks'.tasks[find_task(tasks, ret'.session[1].task_id)] =
            TaskRoundTrip(update_task_progress(
              tasks.tasks[find_task(tasks, ret'.session[1].task_id)],
              RoundMinutes(ret'.session[1].elapsed_minutes)))]_vars

\* the blocks of type 'task' of the schedule returned last
TaskBlocks == SelectSeq(schedule.blocks, LAMBDA b : b.block_type = "task")

\* C17: the schedule returned by generate_schedule contains no two blocks
\* of type 'task' that overlap in time, and every task block's
\* durationMinutes lies between its task's min_chunk_minutes and
\* max_chunk_minutes inclusive.
C17_TaskBlocksDisjointAndSized ==
  ret.op = "generate_schedule" =>
    /\ \A i, j \in 1..Len(TaskBlocks) :
         i # j => ~overlaps(TaskBlocks[i], TaskBlocks[j])
    /\ \A i \in 1..Len(TaskBlocks) :
         \E k \in 1..Len(tasks.tasks) :
           /\ tasks.tasks[k].id = TaskBlocks[i].task_id
           /\ TaskBlocks[i].duration_minutes >= tasks.tasks[k].min_chunk_minutes
           /\ TaskBlocks[i].duration_minutes <= tasks.tasks[k].max_chunk_minutes

\* C18: the slots returned by compute_available_slots are pairwise
\* non-overlapping, each is contained in the union of the profile's
\* work_blocks, each lasts at least 10 minutes, and they are sorted by
\* start time.
C18_SlotsWellFormed ==
  ret.op = "compute_available_slots" =>
    /\ \A i, j \in 1..Len(ret.slots) :
         i # j => ~overlaps(ret.slots[i], ret.slots[j])
    /\ \A i \in 1..Len(ret.slots) :
         /\ \A minute \in ret.slots[i].start..(ret.slots[i].end - 1) :
              \E w \in 1..Len(profile.work_blocks) :
                /\ profile.work_blocks[w].start <= minute
                /\ minute < profile.work_blocks[w].end
         /\ duration_minutes(ret.slots[i]) >= 10
    /\ \A i, j \in 1..Len(ret.slots) :
         i < j => ret.slots[i].start <= ret.slots[j].start

\* the minutes of the task blocks placed for a task
PlacedMinutes(id) ==
  SumBlockMinutes(SelectSeq(TaskBlocks, LAMBDA b : b.task_id = id))

\* C19: every task whose daily demand is not fully met by the blocks
\* placed for it, a task that received only part of its demand included,
\* has its id in unscheduledTasks.
C19_UnmetDemandCarriedOver ==
  ret.op = "generate_schedule" =>
    \A i \in 1..Len(tasks.tasks) :
      (/\ tasks.tasks[i].status = "active"
       /\ PlacedMinutes(tasks.tasks[i].id) < minutes_needed(tasks.tasks[i]))
        => \E k \in 1..Len(schedule.unscheduled_tasks) :
             schedule.unscheduled_tasks[k] = tasks.tasks[i].id

\* C19 as amended: every task with a positive demand for which no block
\* was placed after all slots have been walked has its id in
\* unscheduledTasks.
C19_UnplacedCarriedOver ==
  ret.op = "generate_schedule" =>
    \A i \in 1..Len(tasks.tasks) :
      (/\ tasks.tasks[i].status = "active"
       /\ minutes_needed(tasks.tasks[i]) > 0
       /\ \A k \in 1..Len(TaskBlocks) : TaskBlocks[k].task_id # tasks.tasks[i].id)
        => \E k \in 1..Len(schedule.unscheduled_tasks) :
             schedule.unscheduled_tasks[k] = tasks.tasks[i].id

\* a schedule in which one task got a block for part of its demand and is
\* not carried over, and another got no block and is
C19_Witness ==
  /\ ret.op = "generate_schedule"
  /\ \E i, j \in 1..Len(tasks.tasks) :
       /\ tasks.tasks[i].status = "active" /\ tasks.tasks[j].status = "active"
       /\ PlacedMinutes(tasks.tasks[i].id) > 0
       /\ PlacedMinutes(tasks.tasks[i].id) < minutes_needed(tasks.tasks[i])
       /\ \A k \in 1..Len(schedule.unscheduled_tasks) :
            schedule.unscheduled_tasks[k] # tasks.tasks[i].id
       /\ PlacedMinutes(tasks.tasks[j].id) = 0
       /\ \E k \in 1..Len(schedule.unscheduled_tasks) :
            schedule.unscheduled_tasks[k] = tasks.tasks[j].id

\* one work block 09:00-10:00 and two active deadline projects of equal
\* score that take chunks of 60 to 180 minutes
TieScenario ==
  /\ profile = [work_blocks |-> <<TimeRange(540, 600)>>, fixed_routines |-> <<>>,
                weekly_fixed_events |-> <<>>]
  /\ Len(tasks.tasks) = 2
  /\ \A i \in 1..2 :
       /\ tasks.tasks[i].type = "deadline_project"
       /\ tasks.tasks[i].status = "active"
       /\ tasks.tasks[i].min_chunk_minutes = 60
       /\ tasks.tasks[i].max_chunk_minutes = 180
  /\ ~ScoreAbove(compute_task_priority_score(tasks.tasks[1], today),
                 compute_task_priority_score(tasks.tasks[2], today))
  /\ ~ScoreAbove(compute_task_priority_score(tasks.tasks[2], today),
                 compute_task_priority_score(tasks.tasks[1], today))

\* the position of a task id in the task list
PositionOf(id) == CHOOSE i \in 1..Len(tasks.tasks) : tasks.tasks[i].id = id

\* C20: tasks are placed in descending priority-score order with ties
\* broken by input order; with a single 09:00-10:00 work block and two
\* equal-score deadline_project tasks with min_chunk 60 and max_chunk 180,
\* the first task of the list gets the one block 09:00-10:00 and only the
\* second task appears in unscheduledTasks.
C20_TiesKeepInputOrder ==
  ret.op = "generate_schedule" =>
    /\ \A i, j \in 1..Len(task_needs(tasks, today)) :
         i < j =>
           /\ ~ScoreAbove(task_needs(tasks, today)[j].score, task_needs(tasks, today)[i].score)
           /\ ~ScoreAbove(task_needs(tasks, today)[i].score, task_needs(tasks, today)[j].score)
                => PositionOf(task_needs(tasks, today)[i].task.id)
                     < PositionOf(task_needs(tasks, today)[j].task.id)
    /\ TieScenario =>
         /\ TaskBlocks = <<ScheduledBlock(540, 600, tasks.tasks[1].id,
                                           tasks.tasks[1].title, 60, "task")>>
         /\ schedule.unscheduled_tasks = <<tasks.tasks[2].id>>

\* the schedule of the tie scenario was generated
C20_Witness ==
  /\ ret.op = "generate_schedule"
  /\ TieScenario
  /\ schedule.unscheduled_tasks = <<"b">>

\* ---------------------------------------------------------------------
\* plan.md rendered from a schedule (core/scheduler.py)
\* ---------------------------------------------------------------------

\* the en dash and the em dash, held as one character each
EnDash == "~"
EmDash == "^"

Digit == <<"0", "1", "2", "3", "4", "5", "6", "7", "8", "9">>

RECURSIVE Digits(_)
Digits(n) ==
  IF n < 10 THEN <<Digit[n + 1]>>
  ELSE Digits(n \div 10) \o <<Digit[(n % 10) + 1]>>

\* f"{m:02d}" for 0 <= m < 100
TwoDigits(n) == IF n < 10 THEN <<"0">> \o Digits(n) ELSE Digits(n)

\* time.strftime("%H:%M") of a time of day held in minutes after midnight
strftime_HM(t) == TwoDigits(t \div 60) \o <<":">> \o TwoDigits(t % 60)

\* str(date): dates are day ordinals, written in decimal
isoformat(d) == Digits(d)

dur_str(d) ==
  IF d >= 60
  THEN IF d % 60 = 0
       THEN <<" ">> \o Digits(d \div 60) \o <<"h">>
       ELSE <<" ">> \o Digits(d \div 60) \o <<"h">> \o TwoDigits(d % 60) \o <<"m">>
  ELSE <<" ">> \o Digits(d) \o <<"m">>

RECURSIVE Join(_)
Join(lines) ==
  IF lines = <<>> THEN <<>>
  ELSE IF Len(lines) = 1 THEN lines[1]
  ELSE lines[1] \o <<"\n">> \o Join(Tail(lines))

\* the elements of keys' first occurrences, as indexes in increasing order
first_seen(keys) ==
  LET idx == {i \in 1..Len(keys) : \A j \in 1..(i - 1) : keys[j] # keys[i]}
  IN [k \in 1..Cardinality(idx) |->
        CHOOSE i \in idx : Cardinality({j \in idx : j < i}) = k - 1]

priorities_lines(task_blocks, seen) ==
  IF seen = <<>> THEN <<>>
  ELSE <<<<"#", "#", " ", "T", "o", "p", " ", "p", "r", "i", "o", "r", "i", "t", "i", "e", "s">>>>
       \o [i \in 1..Min(5, Len(seen)) |->
             Digits(i) \o <<")", " ">> \o task_blocks[seen[i]].task_title]
       \o << <<>> >>

schedule_lines(blocks) ==
  [i \in 1..Len(blocks) |->
     <<"-", " ">> \o strftime_HM(blocks[i].start) \o <<EnDash>> \o strftime_HM(blocks[i].end)
     \o <<" ">> \o blocks[i].task_title
     \o (IF blocks[i].block_type = "task" THEN dur_str(blocks[i].duration_minutes)
         ELSE <<>>)]

mvd_label(b) == b.task_title \o dur_str(b.duration_minutes)

mvd_lines(task_blocks, seen) ==
  [i \in 1..Len(seen) |-> <<"-", " ", "[", " ", "]", " ">> \o mvd_label(task_blocks[seen[i]])]

carryover_lines(unscheduled_tasks, tasks_file) ==
  IF unscheduled_tasks = <<>> THEN <<>>
  ELSE <<<<"#", "#", " ", "C", "a", "r", "r", "y", "o", "v", "e", "r">>>>
       \o [i \in 1..Len(unscheduled_tasks) |->
             <<"-", " ">>
             \o (IF find_task(tasks_file, unscheduled_tasks[i]) # 0
                 THEN tasks_file.tasks[find_task(tasks_file, unscheduled_tasks[i])].title
                 ELSE <<unscheduled_tasks[i]>>)
             \o <<" ", "(", "d", "e", "f", "e", "r", "r", "e", "d", " ", EmDash, " ", "i", "n", "s", "u", "f", "f", "i", "c", "i", "e", "n", "t", " ", "t", "i", "m", "e", " ", "s", "l", "o", "t", "s", ")">>]
       \o << <<>> >>

plan_lines(sched, tasks_file, task_blocks) ==
  <<<<"#", " ", "P", "l", "a", "n", " ", EmDash, " ">> \o isoformat(sched.date), <<>>>>
  \o priorities_lines(task_blocks,
                      first_seen([i \in 1..Len(task_blocks) |-> task_blocks[i].task_id]))
  \o <<<<"#", "#", " ", "S", "c", "h", "e", "d", "u", "l", "e">>>> \o schedule_lines(sched.blocks) \o << <<>> >>
  \o <<<<"#", "#", " ", "M", "i", "n", "i", "m", "u", "m", " ", "v", "i", "a", "b", "l", "e", " ", "d", "a", "y">>>>
  \o mvd_lines(task_blocks,
               first_seen([i \in 1..Len(task_blocks) |-> mvd_label(task_blocks[i])]))
  \o << <<>> >>
  \o carryover_lines(sched.unscheduled_tasks, tasks_file)

schedule_to_plan_md(sched, tasks_file) ==
  Join(plan_lines(sched, tasks_file,
                  SelectSeq(sched.blocks, LAMBDA b : b.block_type = "task")))

\* generate_plan's two writes: plan_prev.md keeps every existing plan
generate_plan_copy_always(plan_md, pl, pl_prev) ==
  [plan_md |-> plan_md,
   plan |-> File(plan_md),
   plan_prev |-> IF pl.exists THEN File(pl.text) ELSE pl_prev]

\* generate_plan's two writes, given the rendered plan and the files before
generate_plan_writes(plan_md, pl, pl_prev) ==
  [plan_md |-> plan_md,
   plan |-> File(plan_md),
   plan_prev |-> IF Strip(IF pl.exists THEN pl.text ELSE <<>>) # <<>>
                 THEN File(pl.text) ELSE pl_prev]

generate_plan(pr, tasks_file, target_date, pl, pl_prev) ==
  generate_plan_writes(
    schedule_to_plan_md(generate_schedule(pr, tasks_file, target_date), tasks_file),
    pl, pl_prev)

\* POST /api/generate_schedule
GeneratePlan ==
  /\ plan' = generate_plan(profile, tasks, today, plan, plan_prev).plan
  /\ plan_prev' = generate_plan(profile, tasks, today, plan, plan_prev).plan_prev
  /\ ret' = PlanRet("generate_plan",
                    generate_plan(profile, tasks, today, plan, plan_prev).plan_md)
  /\ pending' = <<>>
  /\ UNCHANGED <<today, files, tui, crashes, counted, finalized, aux>>

\* texts posted to /save_plan: with trailing blanks, blank, empty, plain
PlanTexts == {<<"a", " ">>, <<" ">>, <<>>, <<"b", "\n">>}

NextPlan ==
  \/ SavePlan(PlanTexts)
  \/ GeneratePlan
  \/ AdvanceDay(LastDay(NumDaysTui), NumDaysTui)

SpecPlan == InitSched /\ [][NextPlan]_vars

\* C21 (as claimed): after save_plan(new) or generate_plan, plan_prev.md is
\* the content plan.md had immediately before the call whenever a plan
\* existed before the call, and plan.md holds the new text (up to the
\* trailing white space save_plan normalises).
C21_PrevIsPlanBefore ==
  [][ret'.op \in {"save_plan", "generate_plan"} =>
       /\ plan.exists => plan_prev' = plan
       /\ plan'.exists
       /\ RStrip(plan'.text) = RStrip(ret'.args)]_vars

\* C21 (amended): after save_plan(new), plan_prev.md is the content plan.md
\* had immediately before the call whenever plan.md existed, and plan.md is
\* new with its trailing white space replaced by one newline; after
\* generate_plan, plan_prev.md is the content plan.md had immediately before
\* the call whenever that content was not blank and is left as it was
\* otherwise, and plan.md is the rendered plan.
C21_PrevIsNonBlankPlanBefore ==
  [][/\ (ret'.op = "save_plan" =>
          /\ plan_prev' = IF plan.exists THEN plan ELSE plan_prev
          /\ plan' = File(RStrip(ret'.args) \o <<"\n">>))
      /\ (ret'.op = "generate_plan" =>
          /\ plan_prev' = IF plan.exists /\ \E i \in 1..Len(plan.text) : ~IsSpace(plan.text[i])
                          THEN plan ELSE plan_prev
          /\ plan' = File(ret'.args)
          /\ ret'.args = schedule_to_plan_md(generate_schedule(profile, tasks, today), tasks))]_vars

\* a plan was generated over a blank plan.md that had replaced an edited
\* one: plan_prev.md still holds the edited plan
C21_Witness ==
  /\ ret.op = "generate_plan"
  /\ plan.exists /\ plan.text = ret.args
  /\ plan_prev.exists /\ plan_prev.text = <<"a", "\n">>

\* C22: a rejected task mutation changes nothing: create_task with invalid
\* data or with an id already in the active list, and update_task with an
\* unknown id or with a patch whose merged result fails validation, return
\* errors and leave the active and the archived list exactly as they were
\* (and the API call that was refused leaves tasks.yaml as it was).
C22_RejectedMutationChangesNothing ==
  [][ret'.op \in {"api_create_task", "api_update_task_rest"} =>
       /\ ~ret'.ok => tasks' = tasks
       /\ \A payload \in CreateInputs :
            (\/ validate_task(payload) # {}
             \/ \E i \in 1..Len(tasks.tasks) : tasks.tasks[i].id = payload["id"])
            => /\ create_task(tasks, payload).errors # {}
               /\ create_task(tasks, payload).tasks_file = tasks
       /\ \A task_id \in TaskIds, payload \in UpdateInputs :
            (\/ \A i \in 1..Len(tasks.tasks) : tasks.tasks[i].id # task_id
             \/ \E i \in 1..Len(tasks.tasks) :
                  /\ tasks.tasks[i].id = task_id
                  /\ \A j \in 1..(i - 1) : tasks.tasks[j].id # task_id
                  /\ validate_task(DictUpdate(Task_to_dict(tasks.tasks[i]), payload)) # {})
            => /\ update_task(tasks, task_id, payload).errors # {}
               /\ update_task(tasks, task_id, payload).tasks_file = tasks]_vars

\* an update with priority 0 was refused after a task had been created and
\* another archived
C22_Witness ==
  /\ ret.op = "api_update_task_rest"
  /\ ret.failed = {"priority must be integer 1-10"}
  /\ \E i \in 1..Len(tasks.tasks) : tasks.tasks[i].id = "notes"
  /\ Len(tasks.archived) = 1

\* C23: delete_task(id, archive=true) removes the task from the active list
\* and appends it to archived with status complete; delete_task(id,
\* archive=false) removes it without adding it to archived; in both cases
\* every other task keeps its position and fields; deleting an id that is
\* not in the active list returns false and changes nothing.
C23_DeleteRemovesOne ==
  [][ret'.op = "delete_task" =>
       LET task_id == ret'.task_updates[1]
           archive == ret'.task_updates[2]
           hits == {i \in 1..Len(tasks.tasks) : tasks.tasks[i].id = task_id}
       IN IF hits = {}
          THEN ~ret'.ok /\ tasks' = tasks
          ELSE \E i \in hits :
                 /\ ret'.ok
                 /\ Len(tasks'.tasks) = Len(tasks.tasks) - 1
                 /\ \A j \in 1..(i - 1) : tasks'.tasks[j] = tasks.tasks[j]
                 /\ \A j \in i..Len(tasks'.tasks) : tasks'.tasks[j] = tasks.tasks[j + 1]
                 /\ tasks'.week_start = tasks.week_start
                 /\ tasks'.archived =
                      IF archive
                      THEN Append(tasks.archived, [tasks.tasks[i] EXCEPT !.status = "complete"])
                      ELSE tasks.archived]_vars

\* the task in the middle of the list was deleted without archiving, after
\* another had been archived
C23_Witness ==
  /\ ret.op = "delete_task" /\ ret.ok
  /\ ret.task_updates = <<"work", FALSE>>
  /\ Len(tasks.archived) = 1 /\ tasks.archived[1].id = "paper"
  /\ Len(tasks.tasks) >= 1

\* ---------------------------------------------------------------------
\* update_task_progress applied to one task (core/tasks.py)
\* ---------------------------------------------------------------------

\* tasks of every type and status, with and without a remaining_hours figure
ProgressTasks ==
  { [Task("t", <<"T">>, type, 5, remaining, 480, 30, 10) EXCEPT !.status = status] :
      type \in VALID_TYPES, status \in VALID_STATUSES, remaining \in {NoNum, 0, 50, 90} }

ProgressMinutes == {0, 25, 60}

InitProgress ==
  /\ today = FirstDay
  /\ draft = NoDraft
  /\ state = DefaultState
  /\ reflections = <<>>
  /\ tasks \in {[InitialTasks EXCEPT !.tasks = <<t>>] : t \in ProgressTasks}
  /\ analytics = NoAnalytics
  /\ agent_context = NoAgentContext
  /\ plan = NoFile
  /\ plan_prev = NoFile
  /\ tui = NoTui
  /\ ret = NoCall
  /\ crashes = 0
  /\ pending = <<>>
  /\ counted = {}
  /\ finalized = {}
  /\ focus = NoFocus
  /\ now = 0
  /\ profile = DefaultProfile
  /\ schedule = NoSchedule

\* update_task_progress(task, minutes_done) on the task in memory
UpdateTaskProgress ==
  \E minutes_done \in ProgressMinutes :
    /\ tasks.tasks[1].hours_this_week + minutes_done <= MaxWeekMinutes
    /\ tasks' = [tasks EXCEPT !.tasks[1] = update_task_progress(@, minutes_done)]
    /\ ret' = PlanRet("update_task_progress", minutes_done)
    /\ pending' = <<>>
    /\ UNCHANGED <<daily, focus, now, profile, schedule>>

\* save_tasks followed by load_tasks: every task goes through to_dict and
\* from_dict
SaveAndLoadTasks ==
  /\ tasks' = [tasks EXCEPT
                 !.tasks = [i \in 1..Len(@) |-> Task_from_dict(Task_to_dict(@[i]))],
                 !.archived = [i \in 1..Len(@) |-> Task_from_dict(Task_to_dict(@[i]))]]
  /\ ret' = PlanRet("load_tasks", tasks)
  /\ pending' = <<>>
  /\ UNCHANGED <<daily, focus, now, profile, schedule>>

NextProgress ==
  \/ UpdateTaskProgress
  \/ SaveAndLoadTasks

SpecProgress == InitProgress /\ [][NextProgress]_vars

\* C24: update_task_progress(task, m) on a deadline_project (with a
\* remaining_hours figure) sets remaining_hours to max(0, remaining_hours -
\* m/60) and sets status to complete if and only if the new remaining_hours
\* is 0 (else the status stays as it was); on a weekly_budget it adds m/60
\* to hours_this_week; on any other type it changes no field.  Hours are
\* held in minutes.
C24_ProgressByType ==
  [][ret'.op = "update_task_progress" =>
       LET t == tasks.tasks[1]
           u == tasks'.tasks[1]
           m == ret'.args
       IN /\ DOMAIN u = DOMAIN t
          /\ t.type = "deadline_project" /\ t.remaining_hours # NoNum =>
               /\ u.remaining_hours = (IF t.remaining_hours - m > 0
                                       THEN t.remaining_hours - m ELSE 0)
               /\ u.remaining_hours = 0 => u.status = "complete"
               /\ u.remaining_hours # 0 => u.status = t.status
               /\ \A k \in DOMAIN t \ {"remaining_hours", "status"} : u[k] = t[k]
          /\ t.type = "weekly_budget" =>
               /\ u.hours_this_week = t.hours_this_week + m
               /\ \A k \in DOMAIN t \ {"hours_this_week"} : u[k] = t[k]
          /\ t.type \notin {"deadline_project", "weekly_budget"} => u = t
          /\ t.type = "deadline_project" /\ t.remaining_hours = NoNum => u = t]_vars

\* a deadline project was worked down to zero hours and so completed
C24_Witness ==
  /\ ret.op = "update_task_progress" /\ ret.args = 60
  /\ tasks.tasks[1].type = "deadline_project"
  /\ tasks.tasks[1].remaining_hours = 0
  /\ tasks.tasks[1].status = "complete"

\* ---------------------------------------------------------------------
\* compute_rating applied to the counts of a check-in (core/rating.py)
\* ---------------------------------------------------------------------

\* check-ins with total items of which the first done are done
RatedDrafts ==
  { Draft(FirstDay, "commit",
          [i \in 1..total |-> Item("line", LOther, i <= done, <<>>)], reflection) :
      total \in 0..MaxRatedItems, done \in 0..MaxRatedItems,
      reflection \in {<<>>, ReflPadded, ReflLong, Rep("x", ReflectionMin - 1)} }

InitRating ==
  /\ today = FirstDay
  /\ draft \in RatedDrafts
  /\ state = DefaultState
  /\ reflections = <<>>
  /\ tasks = InitialTasks
  /\ analytics = NoAnalytics
  /\ agent_context = NoAgentContext
  /\ plan = NoFile
  /\ plan_prev = NoFile
  /\ tui = NoTui
  /\ ret = NoCall
  /\ crashes = 0
  /\ pending = <<>>
  /\ counted = {}
  /\ finalized = {}
  /\ focus = NoFocus
  /\ now = 0
  /\ profile = DefaultProfile
  /\ schedule = NoSchedule

\* compute_rating(done_count, total_items, reflection, any_time) on the
\* counts of the check-in
ComputeRating ==
  \E any_time \in BOOLEAN :
    /\ ret' = [PlanRet("compute_rating", any_time) EXCEPT
                 !.rating = compute_rating(
                              Len(SelectSeq(draft.items, LAMBDA it : it.done)),
                              Len(draft.items), draft.reflection, any_time)]
    /\ pending' = <<>>
    /\ UNCHANGED <<daily, tasks, focus, now, profile, schedule>>

NextRating == ComputeRating

SpecRating == InitRating /\ [][NextRating]_vars

\* the reflection without its leading and trailing white space, counted
\* character by character
TrimmedLength(text) ==
  LET inner == {i \in 1..Len(text) : text[i] \notin {" ", "\n"}}
  IN IF inner = {} THEN 0
     ELSE (CHOOSE i \in inner : \A j \in inner : j <= i)
          - (CHOOSE i \in inner : \A j \in inner : i <= j) + 1

WriteRet(op, stage, new, old) ==
  [op |-> op, outcome |-> "running", ok |-> FALSE, reason |-> "",
   already_finalized |-> FALSE, rating |-> None, streak |-> 0,
   task_updates |-> <<>>, failed |-> {}, args |-> new, old |-> old,
   stage |-> stage, temp |-> <<>>]

Running == ret.outcome = "running"

\* the next buffer of content after what the file holds already
NextBuffer(content, written) ==
  SubSeq(content, Len(written) + 1, Min(Len(content), Len(written) + BufferSize))

\* POST /save_plan is called: plan.md is read if it exists
SavePlanCall ==
  \E plan_md \in PlanTexts :
    /\ ~Running
    /\ ret' = WriteRet("save_plan", IF plan.exists THEN "open_prev" ELSE "open_plan",
                       RStrip(plan_md) \o <<"\n">>, plan.text)
    /\ pending' = <<>>
    /\ UNCHANGED <<today, files, plans, tui, crashes, counted, finalized, aux>>

\* write_text: path.write_text opens the file with mode "w"
write_text_open ==
  /\ Running /\ ret.stage \in {"open_prev", "open_plan"}
  /\ plan_prev' = IF ret.stage = "open_prev" THEN File(<<>>) ELSE plan_prev
  /\ plan' = IF ret.stage = "open_plan" THEN File(<<>>) ELSE plan
  /\ ret' = [ret EXCEPT !.stage = IF @ = "open_prev" THEN "write_prev" ELSE "write_plan"]
  /\ UNCHANGED <<today, files, tui, crashes, pending, counted, finalized, aux>>

\* write_text: one buffer of the content reaches the file; after the last
\* one the file is closed and save_plan goes on
write_text_write ==
  /\ Running /\ ret.stage \in {"write_prev", "write_plan"}
  /\ plan_prev' = IF ret.stage = "write_prev"
                  THEN File(plan_prev.text \o NextBuffer(ret.old, plan_prev.text))
                  ELSE plan_prev
  /\ plan' = IF ret.stage = "write_plan"
             THEN File(plan.text \o NextBuffer(ret.args, plan.text))
             ELSE plan
  /\ ret' = IF ret.stage = "write_prev"
            THEN (IF Len(plan_prev'.text) >= Len(ret.old)
                  THEN [ret EXCEPT !.stage = "open_plan"] ELSE ret)
            ELSE (IF Len(plan'.text) >= Len(ret.args)
                  THEN [ret EXCEPT !.stage = "done", !.outcome = "returned", !.ok = TRUE]
                  ELSE ret)
  /\ UNCHANGED <<today, files, tui, crashes, pending, counted, finalized, aux>>

\* generate_plan is called: the plan is rendered and plan.md is read
GeneratePlanCall ==
  /\ ~Running
  /\ ret' = WriteRet("generate_plan",
                     IF Strip(IF plan.exists THEN plan.text ELSE <<>>) # <<>>
                     THEN "temp_prev" ELSE "temp_plan",
                     generate_plan(profile, tasks, today, plan, plan_prev).plan_md,
                     plan.text)
  /\ pending' = <<>>
  /\ UNCHANGED <<today, files, plans, tui, crashes, counted, finalized, aux>>

\* _atomic_write: mkstemp, write, flush, fsync of the temporary file
atomic_write_temp ==
  /\ Running /\ ret.stage \in {"temp_prev", "temp_plan"}
  /\ ret' = [ret EXCEPT !.temp = IF ret.stage = "temp_prev" THEN <<ret.old>> ELSE <<ret.args>>,
                        !.stage = IF @ = "temp_prev" THEN "rename_prev" ELSE "rename_plan"]
  /\ UNCHANGED <<today, files, plans, tui, crashes, pending, counted, finalized, aux>>

\* _atomic_write: os.rename(temp_path, path)
atomic_write_rename ==
  /\ Running /\ ret.stage \in {"rename_prev", "rename_plan"}
  /\ plan_prev' = IF ret.stage = "rename_prev" THEN File(ret.temp[1]) ELSE plan_prev
  /\ plan' = IF ret.stage = "rename_plan" THEN File(ret.temp[1]) ELSE plan
  /\ ret' = IF ret.stage = "rename_prev"
            THEN [ret EXCEPT !.temp = <<>>, !.stage = "temp_plan"]
            ELSE [ret EXCEPT !.temp = <<>>, !.stage = "done",
                             !.outcome = "returned", !.ok = TRUE]
  /\ UNCHANGED <<today, files, tui, crashes, pending, counted, finalized, aux>>

\* _atomic_write, "except Exception": writing the temporary file or the
\* rename raises; the temporary file is unlinked and the error passed on
atomic_write_fail ==
  /\ Running /\ ret.stage \in {"temp_prev", "temp_plan", "rename_prev", "rename_plan"}
  /\ crashes < MaxCrashes
  /\ crashes' = crashes + 1
  /\ ret' = [ret EXCEPT !.temp = <<>>, !.outcome = "raised"]
  /\ UNCHANGED <<today, files, plans, tui, pending, counted, finalized, aux>>

\* the process is killed between two steps of a call
KillProcess ==
  /\ Running
  /\ crashes < MaxCrashes
  /\ crashes' = crashes + 1
  /\ ret' = [ret EXCEPT !.outcome = "crashed"]
  /\ UNCHANGED <<today, files, plans, tui, pending, counted, finalized, aux>>

NextWrite ==
  \/ SavePlanCall
  \/ write_text_open
  \/ write_text_write
  \/ GeneratePlanCall
  \/ atomic_write_temp
  \/ atomic_write_rename
  \/ atomic_write_fail
  \/ KillProcess

SpecWrite == Init /\ [][NextWrite]_vars

\* C26: every file write of an engine operation, those of save_plan to
\* plan.md and plan_prev.md included, is atomic: a concurrent reader or a
\* reader after a crash sees either the complete old content or the complete
\* new content, never partial content, and a failed write leaves the
\* destination unchanged with its temporary file removed.  Here: whenever
\* plan.md changes it becomes the content the call writes, whenever
\* plan_prev.md changes it becomes the plan.md the call read, and a call
\* that raised changed nothing in that step and left no temporary file.
C26_WritesAtomic ==
  [][/\ plan' # plan => plan' = File(ret'.args)
     /\ plan_prev' # plan_prev => plan_prev' = File(ret'.old)
     /\ ret'.outcome = "raised" =>
          ret'.temp = <<>> /\ plan' = plan /\ plan_prev' = plan_prev]_vars

\* ---------------------------------------------------------------------
\* hooks (core/hooks.py)
\* ---------------------------------------------------------------------

VALID_HOOK_POINTS ==
  {"pre_finalize", "post_finalize", "pre_plan_generate", "post_plan_generate",
   "on_focus_start", "on_focus_stop", "on_task_complete"}

DEFAULT_TIMEOUT == 30

\* an entry of a hook list in hooks.yaml: a command string, a mapping with
\* a command and perhaps a timeout, or something else (kind "other")
HookStr(command) == [kind |-> "str", command |-> command]
HookDict(command, timeout) == [kind |-> "dict", command |-> command, timeout |-> timeout]
HookDictNoTimeout(command) == [kind |-> "dict", command |-> command]
HookOther == [kind |-> "other"]

\* subprocess.run(command, shell=True, ..., timeout=timeout): what the
\* command does decides between a return code and an exception; "sleep"
\* runs for 10 seconds, "nolaunch" cannot be started
subprocess_run(command, timeout) ==
  IF command = "nolaunch" THEN [exc |-> "OSError", returncode |-> 0]
  ELSE IF command = "sleep" /\ timeout < 10 THEN [exc |-> "TimeoutExpired", returncode |-> 0]
  ELSE IF command = "false" THEN [exc |-> "", returncode |-> 1]
  ELSE [exc |-> "", returncode |-> 0]

\* the body of the loop of run_hooks for a hook with a command: the result
\* appended, and whether an exception leaves the loop
hook_result_timeout_only(hook_point, command, timeout, proc) ==
  [raised |-> proc.exc \notin {"", "TimeoutExpired"},
   result |-> IF proc.exc = "TimeoutExpired"
              THEN [command |-> command, hook_point |-> hook_point, exit_code |-> -1,
                    error |-> <<"Hook timed out after", timeout>>]
              ELSE [command |-> command, hook_point |-> hook_point,
                    exit_code |-> proc.returncode, stdout |-> "", stderr |-> ""]]

hook_result(hook_point, command, timeout, proc) ==
  [raised |-> FALSE,
   result |-> IF proc.exc = "TimeoutExpired"
              THEN [command |-> command, hook_point |-> hook_point, exit_code |-> -1,
                    error |-> <<"Hook timed out after", timeout>>]
              ELSE IF proc.exc # ""
              THEN [command |-> command, hook_point |-> hook_point, exit_code |-> -1,
                    error |-> <<proc.exc>>]
              ELSE [command |-> command, hook_point |-> hook_point,
                    exit_code |-> proc.returncode, stdout |-> "", stderr |-> ""]]

hook_command(hook) == IF hook.kind \in {"str", "dict"} THEN hook.command ELSE ""
hook_timeout(hook) ==
  IF hook.kind = "dict" /\ "timeout" \in DOMAIN hook THEN hook.timeout ELSE DEFAULT_TIMEOUT

\* the loop of run_hooks over the hooks left, with the results so far
RECURSIVE run_hooks_loop(_, _, _)
run_hooks_loop(hook_point, hooks, results) ==
  IF hooks = <<>> THEN [raised |-> FALSE, results |-> results]
  ELSE IF hook_command(Head(hooks)) = ""
  THEN run_hooks_loop(hook_point, Tail(hooks), results)
  ELSE IF hook_result(hook_point, hook_command(Head(hooks)), hook_timeout(Head(hooks)),
                      subprocess_run(hook_command(Head(hooks)),
                                     hook_timeout(Head(hooks)))).raised
  THEN [raised |-> TRUE, results |-> results]
  ELSE run_hooks_loop(hook_point, Tail(hooks),
         Append(results,
                hook_result(hook_point, hook_command(Head(hooks)), hook_timeout(Head(hooks)),
                            subprocess_run(hook_command(Head(hooks)),
                                           hook_timeout(Head(hooks)))).result))

\* run_hooks with the list hooks.yaml holds for the hook point
run_hooks(hook_point, hooks) ==
  IF hook_point \notin VALID_HOOK_POINTS THEN [raised |-> FALSE, results |-> <<>>]
  ELSE run_hooks_loop(hook_point, hooks, <<>>)

HookInputs ==
  { HookStr("false"), HookDict("sleep", 1), HookDictNoTimeout("sleep"),
    HookDict("nolaunch", 5), HookDictNoTimeout(""), HookOther }

RECURSIVE HookLists(_)
HookLists(n) ==
  IF n = 0 THEN {<<>>}
  ELSE HookLists(n - 1)
       \cup {Append(l, h) : l \in {x \in HookLists(n - 1) : Len(x) = n - 1}, h \in HookInputs}

HookPointInputs == {"post_finalize", "invalid_point"}

HooksRet(args, raised, results) ==
  [op |-> "run_hooks", outcome |-> IF raised THEN "raised" ELSE "returned",
   ok |-> ~raised, reason |-> "", already_finalized |-> FALSE, rating |-> None,
   streak |-> 0, task_updates |-> <<>>, failed |-> {}, args |-> args,
   results |-> results]

\* run_hooks(hook_point, context) with a hooks.yaml that lists hooks for it
RunHooks ==
  \E hook_point \in HookPointInputs, hooks \in HookLists(MaxHooks) :
    /\ ret' = HooksRet(<<hook_point, hooks>>, run_hooks(hook_point, hooks).raised,
                       run_hooks(hook_point, hooks).results)
    /\ pending' = <<>>
    /\ UNCHANGED <<daily, tasks, focus, now, profile, schedule>>

NextHooks == RunHooks

SpecHooks == Init /\ [][NextHooks]_vars

\* the hooks of a list that have a non-empty command, in list order
WithCommand(hooks) ==
  SelectSeq(hooks, LAMBDA h : "command" \in DOMAIN h /\ h.command # "")

\* C27: run_hooks never raises because a hook command fails or times out:
\* each configured hook (of a lifecycle point) with a non-empty command
\* yields exactly one result, in configuration order; a timed-out or
\* unlaunchable hook yields exit_code = -1 with an error field, and the
\* hooks after it still run.
C27_HooksNeverRaise ==
  (ret.op = "run_hooks" /\ ret.args[1] \in VALID_HOOK_POINTS) =>
    LET run == WithCommand(ret.args[2])
    IN /\ ret.outcome = "returned"
       /\ Len(ret.results) = Len(run)
       /\ \A i \in 1..Len(run) :
            /\ ret.results[i].command = run[i].command
            /\ (\/ run[i].command = "nolaunch"
                \/ (run[i].command = "sleep"
                    /\ "timeout" \in DOMAIN run[i] /\ run[i].timeout < 10))
               => /\ ret.results[i].exit_code = -1
                  /\ "error" \in DOMAIN ret.results[i]
            /\ run[i].command = "false" => ret.results[i].exit_code = 1

\* a hook that timed out was followed by a hook that ran
C27_Witness ==
  /\ ret.op = "run_hooks" /\ ret.args[1] = "post_finalize"
  /\ ret.args[2] = <<HookDict("sleep", 1), HookStr("false")>>
  /\ Len(ret.results) = 2
  /\ ret.results[1].exit_code = -1
  /\ ret.results[2].exit_code = 1

\* C28: for every Task t (any type, with any combination of type-specific
\* fields set), Task.from_dict(t.to_dict()) equals t, so saving tasks.yaml
\* and loading it again loses no task field value.  (A field elided for
\* holding its default comes back as that default, so equality covers it.)
C28_TaskRoundTrip ==
  [][ret'.op = "load_tasks" =>
       /\ tasks' = tasks
       /\ \A i \in 1..Len(tasks.tasks) :
            Task_from_dict(Task_to_dict(tasks.tasks[i])) = tasks.tasks[i]]_vars

\* ---------------------------------------------------------------------
\* reflections.md written by finalize_day and read by parse_reflections
\* ---------------------------------------------------------------------

\* a reflection with a line that reads like a dated heading
ReflHeading == <<"o", "k">> \o <<"\n">> \o <<"#", "#", " ">> \o isoformat(FirstDay - 1)

DraftInputsReflect ==
  { P("commit", <<Item("line-1", LPaper, TRUE, <<"c">>),
                  Item("line-2", LWeekly, FALSE, <<>>)>>, <<>>),
    P("recovery", <<>>, ReflLong),
    P("commit", <<>>, ReflHeading) }

InitReflect ==
  /\ today = FirstDay
  /\ draft = NoDraft
  /\ state = DefaultState
  /\ reflections = <<>>
  /\ tasks = InitialTasks
  /\ analytics = NoAnalytics
  /\ agent_context = NoAgentContext
  /\ plan = NoFile
  /\ plan_prev = NoFile
  /\ tui = NoTui
  /\ ret = NoCall
  /\ crashes = 0
  /\ pending = <<>>
  /\ counted = {}
  /\ finalized = {}
  /\ focus = NoFocus
  /\ now = 0
  /\ profile = DefaultProfile
  /\ schedule = NoSchedule

NextReflect ==
  \/ api_checkin_draft(DraftInputsReflect)
  \/ FinalizeDay({7}, {{}})
  \/ AdvanceDay(LastDay(NumDays), NumDays)

SpecReflect == InitReflect /\ [][NextReflect]_vars

\* C29: after any sequence of successful finalizations on distinct days
\* starting from an empty reflections.md, parse_reflections on the file
\* returns exactly one record per finalized day, newest day first, and each
\* record carries that finalization's rating, mode and list of done-item
\* labels: each successful finalization puts one record, today's, in front
\* of the records there were.
C29_ParseReadsWriter ==
  [][(ret'.op = "finalize_day" /\ ret'.outcome = "returned" /\ ret'.ok
      /\ ~ret'.already_finalized) =>
       parse_reflections(reflections') =
         <<DayRecord(today, ret'.rating,
                     IF draft.mode \in {"commit", "recovery"} THEN draft.mode ELSE "commit",
                     [i \in 1..Len(SelectSeq(draft.items, LAMBDA it : it.done)) |->
                        SelectSeq(draft.items, LAMBDA it : it.done)[i].label])>>
         \o parse_reflections(reflections)]_vars

\* ------------------------------------------ plan edits and plan_changed
\* the check-ins of the runs where the plan is left alone: nothing done and
\* no reflection, a reflection below the threshold, one done item
DraftInputsStale ==
  { P("commit", <<>>, <<>>),
    P("recovery", <<>>, <<"o", "k">>),
    P("commit", <<Item("line-1", LPaper, TRUE, <<>>)>>, <<>>) }

\* POST /api/plan while no day has been finalized yet
SavePlanBeforeFirstFinalize ==
  /\ finalized = {}
  /\ SavePlan(PlanTexts)

\* the daily loop in which plan.md is written only before the first
\* finalization: every later finalization comes with no plan edit since
\* the one before it
NextStale ==
  \/ SavePlanBeforeFirstFinalize
  \/ api_checkin_draft(DraftInputsStale)
  \/ FinalizeDay({7}, {{}})
  \/ AdvanceDay(LastDay(NumDays), NumDays)

SpecStale == InitReflect /\ [][NextStale]_vars

\* C30: plan_changed is true only when plan.md's text was changed after the
\* previous successful finalization, so a finalization that follows an
\* earlier one with no plan edit in between, with zero done items and a
\* reflection shorter than 30 characters after trimming, does not count
\* toward the streak.
C30_StalePlanDoesNotCount ==
  [][(ret'.op = "finalize_day" /\ ret'.outcome = "returned" /\ ret'.ok
      /\ ~ret'.already_finalized
      /\ finalized # {}
      /\ SelectSeq(draft.items, LAMBDA it : it.done) = <<>>
      /\ Len(Strip(draft.reflection)) < ReflectionMin) =>
       today \notin counted']_vars

\* -------------------------------------------- task blocks and windows
\* two ranges of minutes that share a minute
Intersects(a, b) == Max(a.start, b.start) < Min(a.end, b.end)

\* the weekly events of the day the schedule returned last is for
EventsOfDay ==
  SelectSeq(profile.weekly_fixed_events,
            LAMBDA e : e.day = DAY_NAMES[Weekday(schedule.date) + 1])

\* C31: no task block produced by generate_schedule intersects a fixed
\* routine window or a weekly event of the target weekday extended by its
\* commute minutes on each side, and every task block lies inside one work
\* block.
C31_TaskBlocksAvoidBlockedWindows ==
  ret.op = "generate_schedule" =>
    \A i \in 1..Len(TaskBlocks) :
      /\ \A k \in 1..Len(profile.fixed_routines) :
           ~Intersects(TaskBlocks[i], profile.fixed_routines[k].window)
      /\ \A k \in 1..Len(EventsOfDay) :
           ~Intersects(TaskBlocks[i],
                       TimeRange(EventsOfDay[k].time.start - EventsOfDay[k].commute_min_each_way,
                                 EventsOfDay[k].time.end + EventsOfDay[k].commute_min_each_way))
      /\ \E w \in 1..Len(profile.work_blocks) :
           /\ profile.work_blocks[w].start <= TaskBlocks[i].start
           /\ TaskBlocks[i].end <= profile.work_blocks[w].end

\* a task block that ends where the commute to an event of the day begins,
\* in a work block that reaches into the event
C31_Witness ==
  /\ ret.op = "generate_schedule"
  /\ \E i \in 1..Len(TaskBlocks), k \in 1..Len(EventsOfDay), w \in 1..Len(profile.work_blocks) :
       /\ EventsOfDay[k].commute_min_each_way > 0
       /\ TaskBlocks[i].end = EventsOfDay[k].time.start - EventsOfDay[k].commute_min_each_way
       /\ profile.work_blocks[w].start <= TaskBlocks[i].start
       /\ profile.work_blocks[w].end > EventsOfDay[k].time.start

\* ------------------------------------------------------ computed fields
\* round(n / d, 0) for d > 0: Python rounds a tie to the even neighbour
RoundHalfEven(n, d) ==
  IF 2 * (n % d) < d THEN n \div d
  ELSE IF 2 * (n % d) > d THEN n \div d + 1
  ELSE IF (n \div d) % 2 = 0 THEN n \div d
  ELSE n \div d + 1

\* the urgency get_tasks_with_computed_fields adds up before rounding, as
\* the fraction <<numerator, denominator>>; hours are held in minutes
urgency(task, day) ==
  IF task.type = "deadline_project" /\ task.deadline # NoDate
     /\ task.remaining_hours # NoNum /\ task.remaining_hours > 0
  THEN <<task.priority * 12 * Max(1, task.deadline - day) + task.remaining_hours,
         12 * Max(1, task.deadline - day)>>
  ELSE IF task.type = "weekly_budget" /\ task.target_hours_per_week # NoNum
          /\ task.target_hours_per_week # 0
  THEN <<task.priority * task.target_hours_per_week
           + 3 * Max(0, task.target_hours_per_week - task.hours_this_week),
         task.target_hours_per_week>>
  ELSE <<task.priority, 1>>

\* one dict of the result: urgency_score = round(urgency, 2) in hundredths,
\* weekly_progress_pct = round(pct, 1) in tenths, NoNum for a missing key
computed_fields(task, day) ==
  [id |-> task.id,
   urgency_score |-> RoundHalfEven(100 * urgency(task, day)[1], urgency(task, day)[2]),
   days_until_deadline |->
     IF task.type = "deadline_project" /\ task.deadline # NoDate
     THEN Max(1, task.deadline - day) ELSE NoNum,
   weekly_progress_pct |->
     IF task.type = "weekly_budget" /\ task.target_hours_per_week # NoNum
        /\ task.target_hours_per_week # 0
     THEN RoundHalfEven(1000 * task.hours_this_week, task.target_hours_per_week)
     ELSE NoNum]

\* result.sort(key = urgency_score, reverse = True): x goes behind the
\* dicts whose score is no lower
RECURSIVE insert_by_urgency(_, _)
insert_by_urgency(sorted, x) ==
  IF sorted = <<>> THEN <<x>>
  ELSE IF x.urgency_score > Head(sorted).urgency_score THEN <<x>> \o sorted
  ELSE <<Head(sorted)>> \o insert_by_urgency(Tail(sorted), x)

RECURSIVE sort_by_urgency(_, _)
sort_by_urgency(seq, out) ==
  IF seq = <<>> THEN out
  ELSE sort_by_urgency(Tail(seq), insert_by_urgency(out, Head(seq)))

\* get_tasks_with_computed_fields
get_tasks_with_computed_fields(tasks_file, day) ==
  sort_by_urgency([i \in 1..Len(tasks_file.tasks) |->
                     computed_fields(tasks_file.tasks[i], day)], <<>>)

\* the tasks of the runs that score: deadline projects with a deadline
\* date, without one, and with nothing left; a weekly budget with a gap; a
\* ritual; an open-ended task
UrgencyTasks ==
  { [Task("due", <<"D">>, "deadline_project", 5, 50, NoNum, 0, NoNum)
       EXCEPT !.deadline = FirstDay + 3],
    Task("nodate", <<"N">>, "deadline_project", 5, 180, NoNum, 0, NoNum),
    Task("over", <<"O">>, "deadline_project", 5, 0, NoNum, 0, NoNum),
    Task("work", <<"W">>, "weekly_budget", 8, NoNum, 480, 60, NoNum),
    Task("maint", <<"M">>, "daily_ritual", 5, NoNum, NoNum, 0, 10),
    Task("misc", <<"X">>, "open_ended", 6, NoNum, NoNum, 0, NoNum) }

InitUrgency ==
  /\ today = FirstDay
  /\ draft = NoDraft
  /\ state = DefaultState
  /\ reflections = <<>>
  /\ tasks \in {[InitialTasks EXCEPT !.tasks = ts] :
                  ts \in {<<a>> : a \in UrgencyTasks}
                         \cup {p \in UrgencyTasks \X UrgencyTasks : p[1] # p[2]}}
  /\ analytics = NoAnalytics
  /\ agent_context = NoAgentContext
  /\ plan = NoFile
  /\ plan_prev = NoFile
  /\ tui = NoTui
  /\ ret = NoCall
  /\ crashes = 0
  /\ pending = <<>>
  /\ counted = {}
  /\ finalized = {}
  /\ focus = NoFocus
  /\ now = 0
  /\ profile = DefaultProfile
  /\ schedule = NoSchedule

\* GET /api/tasks: get_tasks_with_computed_fields(tasks_file, state, today)
GetTasksWithComputedFields ==
  /\ ret' = [op |-> "get_tasks_with_computed_fields", outcome |-> "returned",
             ok |-> TRUE, reason |-> "", already_finalized |-> FALSE,
             rating |-> None, streak |-> 0, task_updates |-> <<>>, failed |-> {},
             results |-> get_tasks_with_computed_fields(tasks, today)]
  /\ pending' = <<>>
  /\ UNCHANGED <<daily, tasks, focus, now, profile, schedule>>

NextUrgency ==
  \/ GetTasksWithComputedFields
  \/ AdvanceDay(LastDay(NumDays), NumDays)

SpecUrgency == InitUrgency /\ [][NextUrgency]_vars

\* C32: for every task and date, the urgency_score reported by
\* get_tasks_with_computed_fields equals the scheduler's priority score of
\* the task (compute_task_priority_score): priority, plus the deadline
\* boost or +2 for a deadline project with hours left and no deadline, plus
\* the weekly-budget gap boost, plus 1 for a daily ritual.
C32_UrgencyIsPriorityScore ==
  ret.op = "get_tasks_with_computed_fields" =>
    \A i \in 1..Len(ret.results) :
      \A k \in 1..Len(tasks.tasks) :
        tasks.tasks[k].id = ret.results[i].id =>
          LET score == compute_task_priority_score(tasks.tasks[k], today)
          IN ret.results[i].urgency_score * score[2] = 100 * score[1]

\* ------------------------------------------------------- streak history
\* state.history[i..j] is a maximal run of counted entries
MaximalRun(i, j) ==
  /\ i <= j
  /\ \A k \in i..j : state.history[k].streak_counted
  /\ i = 1 \/ ~state.history[i - 1].streak_counted
  /\ j = Len(state.history) \/ ~state.history[j + 1].streak_counted

\* C33: each entry {start, end, length} of analytics streakHistory
\* describes one maximal contiguous run of state.history entries with
\* streakCounted = true: start is the day of the run's first counted
\* entry, end is the day of the run's last counted entry, length is the
\* number of entries in the run, and every counted history entry belongs
\* to exactly one emitted run.
C33_StreakHistoryRuns ==
  (Finalized /\ "analytics" \notin ret.failed) =>
    /\ \A n \in 1..Len(analytics.streakHistory) :
         \E i, j \in 1..Len(state.history) :
           /\ MaximalRun(i, j)
           /\ analytics.streakHistory[n].start = state.history[i].day
           /\ analytics.streakHistory[n].end = state.history[j].day
           /\ analytics.streakHistory[n].length = j - i + 1
    /\ \A k \in 1..Len(state.history) :
         state.history[k].streak_counted =>
           Cardinality({n \in 1..Len(analytics.streakHistory) :
                          /\ analytics.streakHistory[n].start <= state.history[k].day
                          /\ state.history[k].day <= analytics.streakHistory[n].end}) = 1

\* ------------------------------------------------- finalization, TUI
\* cli/moltfocus.py _finalize on the stored draft: its own copies of
\* compute_rating, counts_for_streak, the streak arithmetic, the history
\* and prepend_reflection read as the core functions do; it has no guard
\* on lastFinalizedDate and no task, analytics, agent-context or hook stage
finalize_tui(day, raw_draft, st, refl, pl, pl_prev) ==
  LET r == day_result(raw_draft, pl, pl_prev)
      ns == next_streak(st.streak, st.last_streak_date, r.counts, day)
  IN [gate |-> IF raw_draft.day # day THEN "no-draft-for-today" ELSE "run",
      rating |-> r.rating,
      streak |-> ns.streak,
      counts |-> r.counts,
      refl |-> prepend_reflection(refl,
                 build_reflection_entry(day, r.rating, r.draft_mode, r.done_items,
                                        raw_draft.items, raw_draft.reflection)),
      state |-> finalized_state(st, ns, r.rating, r.draft_mode,
                  summarize_paragraph(day, r.rating, r.done_items, raw_draft.reflection),
                  day,
                  HistoryEntry(day, r.rating, r.draft_mode, r.counts,
                               Len(r.done_items), r.total_items)),
      draft |-> ClearedDraft(day)]

\* MoltFocusApp.action_finalize_day: _save_draft(self._draft), then
\* _do_finalize: _finalize() and, when it returns ok, _load_data
action_finalize_day ==
  /\ tui # NoTui
  /\ EntriesFor(today) < MaxFinalizations
  /\ LET f == finalize_tui(today, tui[1], state, reflections, plan, plan_prev)
     IN IF f.gate # "run"
        THEN /\ draft' = tui[1]
             /\ ret' = Ret("action_finalize_day", "returned", FALSE, f.gate, FALSE,
                           None, 0, <<>>, {})
             /\ UNCHANGED <<state, reflections, tui, counted, finalized>>
        ELSE /\ draft' = f.draft
             /\ state' = f.state
             /\ reflections' = f.refl
             /\ tui' = <<f.draft>>
             /\ counted' = IF f.counts THEN counted \cup {today} ELSE counted
             /\ finalized' = finalized \cup {today}
             /\ ret' = Ret("action_finalize_day", "returned", TRUE, "", FALSE,
                           f.rating, f.streak, <<>>, {})
  /\ pending' = <<>>
  /\ UNCHANGED <<today, tasks, analytics, agent_context, plans, crashes, aux>>

\* a day at the TUI: check in, finalize, finalize again
NextCli ==
  \/ tui_start
  \/ action_toggle_mode
  \/ on_reflection_change
  \/ action_finalize_day
  \/ action_quit_app

SpecCli == Init /\ [][NextCli]_vars

\* C34: finalization through the TUI/CLI entry point (_finalize) is
\* idempotent per day as finalize_day is: after a first successful
\* finalization, a second one on the same day leaves state.json (today's
\* history entry and lastRating included) and reflections.md unchanged.
C34_TuiFinalizeIdempotent ==
  [][(today \in finalized /\ ret'.op = "action_finalize_day")
       => UNCHANGED <<state, reflections>>]_vars

\* ---------------------------------------------------- mode and outcome
\* the other of the two modes; a draft without a valid mode is a commit
OtherMode(mode) == IF mode = "recovery" THEN "commit" ELSE "recovery"

\* state.json and reflections.md with the recorded modes blanked
StateWithoutMode(st) ==
  [st EXCEPT !.last_mode = None,
             !.history = [i \in 1..Len(st.history) |-> [st.history[i] EXCEPT !.mode = None]]]
ReflectionsWithoutMode(refl) ==
  [i \in 1..Len(refl) |-> [refl[i] EXCEPT !.mode = ""]]

\* what finalize_day returns on the workspace whose draft has the other
\* mode, and the workspace it leaves
OtherModeRun ==
  finalize_day(today, [Workspace EXCEPT !.draft.mode = OtherMode(draft.mode)],
               plan, plan_prev, {})
OtherModeFiles ==
  Head(SubSeq(OtherModeRun.stages, Len(OtherModeRun.stages), Len(OtherModeRun.stages)))

\* C35: the draft's mode does not influence the outcome of finalize_day:
\* on two workspaces that differ only in the draft's mode (commit against
\* recovery) finalization yields the same rating, streak, lastStreakDate
\* and streakCounted flag, and the files differ only in the recorded mode.
C35_ModeDoesNotInfluence ==
  [][(ret'.op = "finalize_day" /\ ret'.outcome = "returned" /\ ret'.ok
      /\ ~ret'.already_finalized) =>
       /\ OtherModeRun.rating = ret'.rating
       /\ OtherModeRun.streak = ret'.streak
       /\ OtherModeFiles.state.last_streak_date = state'.last_streak_date
       /\ OtherModeRun.counts = (today \in counted')
       /\ StateWithoutMode(OtherModeFiles.state) = StateWithoutMode(state')
       /\ ReflectionsWithoutMode(OtherModeFiles.refl)
            = ReflectionsWithoutMode(reflections')
       /\ OtherModeFiles.tasks = tasks'
       /\ OtherModeFiles.state.last_mode # state'.last_mode]_vars

\* a recovery day with a short reflection and nothing done was finalized:
\* rated bad and not counted
C35_Witness ==
  /\ Finalized
  /\ state.last_mode = "recovery"
  /\ ret.rating = "bad"
  /\ ~TodayEntry.streak_counted

\* ------------------------------------------- rendered labels read back
\* the labels of plan.md as text (core/checkbox.py works on strings)
DigitValue(c) == CHOOSE n \in 0..9 : Digit[n + 1] = c

\* int() of a run of decimal digits
RECURSIVE Number(_)
Number(ds) ==
  IF ds = <<>> THEN 0
  ELSE 10 * Number(SubSeq(ds, 1, Len(ds) - 1)) + DigitValue(ds[Len(ds)])

\* the length of the run of digits s ends with
RECURSIVE DigitRun(_)
DigitRun(s) ==
  IF s = <<>> \/ ~IsDigit(s[Len(s)]) THEN 0
  ELSE 1 + DigitRun(SubSeq(s, 1, Len(s) - 1))

RECURSIVE Pow10(_)
Pow10(k) == IF k = 0 THEN 1 ELSE 10 * Pow10(k - 1)

\* the match of  (\d+(?:\.\d+)?)\s*([hm])\s*$  (ignoring case) in label:
\* found, the unit, the number as whole / scale, and where the number starts
duration_match(label) ==
  LET s == RStrip(label)
      body == RStrip(SubSeq(s, 1, Len(s) - 1))
      k == DigitRun(body)
      rest == SubSeq(body, 1, Len(body) - k)
      k0 == IF rest # <<>> /\ rest[Len(rest)] = "."
            THEN DigitRun(SubSeq(rest, 1, Len(rest) - 1)) ELSE 0
      frac == SubSeq(body, Len(body) - k + 1, Len(body))
  IN IF s = <<>> \/ s[Len(s)] \notin {"h", "m", "H", "M"} \/ k = 0
     THEN [found |-> FALSE, unit |-> "", whole |-> 0, scale |-> 1, start |-> 0]
     ELSE IF k0 > 0
     THEN [found |-> TRUE,
           unit |-> IF s[Len(s)] \in {"h", "H"} THEN "h" ELSE "m",
           whole |-> Number(SubSeq(rest, Len(rest) - k0, Len(rest) - 1)) * Pow10(k)
                       + Number(frac),
           scale |-> Pow10(k),
           start |-> Len(rest) - k0]
     ELSE [found |-> TRUE,
           unit |-> IF s[Len(s)] \in {"h", "H"} THEN "h" ELSE "m",
           whole |-> Number(frac), scale |-> 1,
           start |-> Len(body) - k + 1]

\* parse_duration_from_label on the text of a label
parse_duration_from_label_text(label) ==
  LET m == duration_match(label)
  IN IF ~m.found THEN 0
     ELSE IF m.unit = "h" THEN (m.whole * 60) \div m.scale
     ELSE m.whole \div m.scale

\* the text before the first colon, or all of it
before_colon(s) ==
  LET colons == {i \in 1..Len(s) : s[i] = ":"}
  IN IF colons = {} THEN s
     ELSE SubSeq(s, 1, (CHOOSE i \in colons : \A j \in colons : i <= j) - 1)

\* parse_task_title_from_label on the text of a label: the trailing
\* duration is removed only when white space precedes its number
parse_task_title_from_label_text(label) ==
  LET m == duration_match(label)
      cleaned == IF m.found /\ m.start > 1 /\ IsSpace(label[m.start - 1])
                 THEN Strip(SubSeq(label, 1, m.start - 1))
                 ELSE Strip(label)
  IN Strip(before_colon(cleaned))

\* match_task_from_label on the text of a label: index in task_list, 0 for None
match_task_from_label_text(label, task_list) ==
  LET prefix == Lower(parse_task_title_from_label_text(label))
      exact == {i \in 1..Len(task_list) : Lower(task_list[i].title) = prefix}
      loose == {i \in 1..Len(task_list) :
                  \/ StartsWith(Lower(task_list[i].title), prefix)
                  \/ StartsWith(prefix, Lower(task_list[i].title))}
      lowest(S) == CHOOSE i \in S : \A j \in S : i <= j
  IN IF prefix = <<>> THEN 0
     ELSE IF exact # {} THEN lowest(exact)
     ELSE IF loose # {} THEN lowest(loose)
     ELSE 0

\* process_checkin_progress on one done item: the task credited (0 for
\* none) and the minutes
checkin_credit(label, task_list) ==
  LET i == match_task_from_label_text(label, task_list)
      minutes == parse_duration_from_label_text(label)
  IN IF i = 0 THEN <<0, 0>>
     ELSE IF minutes > 0 THEN <<i, minutes>>
     ELSE IF task_list[i].type = "daily_ritual"
             /\ task_list[i].estimated_minutes_per_day \notin {NoNum, 0}
     THEN <<i, task_list[i].estimated_minutes_per_day>>
     ELSE <<i, FallbackMinutes>>

\* the blocks of the schedule generate_plan renders
RenderedBlocks == generate_schedule(profile, tasks, today).blocks
RenderedBlock(i) == Head(SubSeq(RenderedBlocks, i, i))

\* C36: every task block of d minutes rendered as a "Minimum viable day"
\* checkbox reads back as d minutes: parse_duration_from_label of its label
\* is d, and marking the item done credits d minutes to the block's task.
C36_LabelRoundTrip ==
  ret.op = "generate_plan" =>
    \A i \in 1..Len(RenderedBlocks) :
      LET b == RenderedBlock(i)
      IN b.block_type = "task" =>
           /\ parse_duration_from_label_text(mvd_label(b)) = b.duration_minutes
           /\ checkin_credit(mvd_label(b), tasks.tasks)
                = <<find_task(tasks, b.task_id), b.duration_minutes>>

\* ------------------------------------------- who gets blocks, how much
HasBlock(id) == \E i \in 1..Len(TaskBlocks) : TaskBlocks[i].task_id = id
Unscheduled(id) ==
  \E k \in 1..Len(schedule.unscheduled_tasks) : schedule.unscheduled_tasks[k] = id

\* C37: in generate_schedule's output only tasks with status active have
\* task blocks; every active task with positive daily demand has at least
\* one task block or is listed in unscheduledTasks, never both; and the
\* minutes of the blocks placed for one task never exceed its daily demand.
C37_BlocksForActiveWithinDemand ==
  ret.op = "generate_schedule" =>
    /\ \A i \in 1..Len(TaskBlocks) :
         \E k \in 1..Len(tasks.tasks) :
           /\ tasks.tasks[k].id = TaskBlocks[i].task_id
           /\ tasks.tasks[k].status = "active"
    /\ \A k \in 1..Len(tasks.tasks) :
         tasks.tasks[k].status # "active" =>
           ~HasBlock(tasks.tasks[k].id) /\ ~Unscheduled(tasks.tasks[k].id)
    /\ \A k \in 1..Len(tasks.tasks) :
         (tasks.tasks[k].status = "active" /\ minutes_needed(tasks.tasks[k]) > 0) =>
           HasBlock(tasks.tasks[k].id) # Unscheduled(tasks.tasks[k].id)
    /\ \A k \in 1..Len(tasks.tasks) :
         tasks.tasks[k].status = "active" =>
           PlacedMinutes(tasks.tasks[k].id) <= minutes_needed(tasks.tasks[k])

\* a schedule for a task list with a paused task, a task that was given a
\* block in each of two slots, and a task that was carried over
C37_Witness ==
  /\ ret.op = "generate_schedule"
  /\ \E k \in 1..Len(tasks.tasks) : tasks.tasks[k].status = "paused"
  /\ \E k \in 1..Len(tasks.tasks) :
       /\ tasks.tasks[k].status = "active"
       /\ HasBlock(tasks.tasks[k].id)
       /\ PlacedMinutes(tasks.tasks[k].id) < minutes_needed(tasks.tasks[k])
  /\ \E k \in 1..Len(tasks.tasks) :
       tasks.tasks[k].status = "active" /\ Unscheduled(tasks.tasks[k].id)

\* ---------------------------------------------------------------------
\* two finalize_day calls in flight (the UI thread and a nightly trigger)
\* ---------------------------------------------------------------------
\* There is no lock around finalize_day: each call reads and writes the
\* files one at a time, and the other call's reads and writes can fall in
\* between.  A caller's record in `pending` is what the call holds in
\* memory: its position, its arguments, the raw draft and the State object
\* it loaded (and goes on assigning to), the TasksFile it loaded, the
\* update descriptions, and what it returned.
Callers == {1, 2}

Caller(pc, args, raw_draft, st, tasks_file, task_updates, result) ==
  [pc |-> pc, args |-> args, raw_draft |-> raw_draft, state |-> st,
   tasks_file |-> tasks_file, task_updates |-> task_updates, result |-> result]
NotCalled == Caller("start", <<>>, NoDraft, DefaultState, InitialTasks, <<>>, NoCall)

\* the drafts on disk when the two calls start
RaceDrafts ==
  { Draft(FirstDay, "commit", <<>>, ReflLong),
    Draft(FirstDay, "commit", <<Item("line-1", LPaper, TRUE, <<>>)>>, <<>>),
    Draft(FirstDay, "commit", <<Item("line-1", LWeekly, TRUE, <<>>)>>, <<>>),
    Draft(FirstDay, "recovery", <<Item("line-1", LMaint, FALSE, <<>>)>>, <<>>) }

InitRaceFinalize ==
  /\ today = FirstDay
  /\ draft \in RaceDrafts
  /\ state = DefaultState
  /\ reflections \in InitialReflections
  /\ tasks = InitialTasks
  /\ analytics = NoAnalytics
  /\ agent_context = NoAgentContext
  /\ plan = NoFile
  /\ plan_prev = NoFile
  /\ tui = NoTui
  /\ ret = NoCall
  /\ crashes = 0
  /\ pending = [c \in Callers |-> NotCalled]
  /\ counted = {}
  /\ finalized = {}
  /\ focus = NoFocus
  /\ now = 0
  /\ profile = DefaultProfile
  /\ schedule = NoSchedule

\* what caller c derives from the draft and the state it loaded
CallerResult(c) == day_result(pending[c].raw_draft, plan, plan_prev)
CallerRecords(c) ==
  day_records(today, pending[c].raw_draft, pending[c].state, CallerResult(c),
              next_streak(pending[c].state.streak, pending[c].state.last_streak_date,
                          CallerResult(c).counts, today),
              summarize_paragraph(today, CallerResult(c).rating,
                                  CallerResult(c).done_items,
                                  pending[c].raw_draft.reflection))

\* steps 1 and 2: read_json(dp), read_json(sp) and the two gates
finalize_day_load(c) ==
  /\ pending[c].pc = "start"
  /\ IF finalize_gate(today, draft, state) = "run"
     THEN /\ pending' = [pending EXCEPT ![c].pc = "reflections",
                                           ![c].raw_draft = draft,
                                           ![c].state = state]
          /\ UNCHANGED ret
     ELSE /\ ret' = IF finalize_gate(today, draft, state) = "already_finalized"
                    THEN Ret("finalize_day", "returned", TRUE, "", TRUE, None, 0, <<>>, {})
                    ELSE Ret("finalize_day", "returned", FALSE,
                             finalize_gate(today, draft, state), FALSE, None, 0, <<>>, {})
          /\ pending' = [pending EXCEPT ![c].pc = "done", ![c].result = ret']
  /\ UNCHANGED <<today, files, plans, tui, crashes, counted, finalized, aux>>

\* step 4: prepend_reflection(rp, entry_md)
finalize_day_prepend(c) ==
  /\ pending[c].pc = "reflections"
  /\ reflections' = prepend_reflection(reflections, CallerRecords(c).entry_md)
  /\ pending' = [pending EXCEPT ![c].pc = "state"]
  /\ UNCHANGED <<today, draft, state, tasks, analytics, agent_context, plans, tui,
                 ret, crashes, counted, finalized, aux>>

\* step 5: write_json_atomic(sp, state.to_dict())
finalize_day_write_state(c) ==
  /\ pending[c].pc = "state"
  /\ state' = CallerRecords(c).state
  /\ pending' = [pending EXCEPT ![c].pc = "load_tasks",
                                   ![c].state = CallerRecords(c).state]
  /\ counted' = IF CallerResult(c).counts THEN counted \cup {today} ELSE counted
  /\ UNCHANGED <<today, draft, reflections, tasks, analytics, agent_context, plans,
                 tui, ret, crashes, finalized, aux>>

\* step 6: tasks_file = load_tasks(root)
finalize_day_load_tasks(c) ==
  /\ pending[c].pc = "load_tasks"
  /\ pending' = [pending EXCEPT ![c].pc = "save_tasks", ![c].tasks_file = tasks]
  /\ UNCHANGED <<today, files, plans, tui, ret, crashes, counted, finalized, aux>>

\* step 6: reset, progress and archive on the loaded TasksFile, and
\* save_tasks when there is something to save
finalize_day_save_tasks(c) ==
  LET t == task_stage_reset(pending[c].raw_draft.items, pending[c].tasks_file,
                            pending[c].state.week_start_date, today)
  IN /\ pending[c].pc = "save_tasks"
     /\ tasks' = IF t.changed THEN t.tasks ELSE tasks
     /\ pending' = [pending EXCEPT
                      ![c].pc = IF t.changed THEN "state_again" ELSE "analytics",
                      ![c].state.week_start_date = t.week_start_date,
                      ![c].task_updates = t.updates]
     /\ UNCHANGED <<today, draft, state, reflections, analytics, agent_context,
                    plans, tui, ret, crashes, counted, finalized, aux>>

\* step 6, "Re-save state": the State object of this call is written again
finalize_day_resave_state(c) ==
  /\ pending[c].pc = "state_again"
  /\ state' = pending[c].state
  /\ pending' = [pending EXCEPT ![c].pc = "analytics"]
  /\ UNCHANGED <<today, draft, reflections, tasks, analytics, agent_context, plans,
                 tui, ret, crashes, counted, finalized, aux>>

\* step 7: refresh_analytics reads reflections.md and state.json
finalize_day_analytics(c) ==
  /\ pending[c].pc = "analytics"
  /\ analytics' = refresh_analytics(reflections, state)
  /\ pending' = [pending EXCEPT ![c].pc = "agent_context"]
  /\ UNCHANGED <<today, draft, state, reflections, tasks, agent_context, plans,
                 tui, ret, crashes, counted, finalized, aux>>

\* step 8: generate_agent_context reads state.json, analytics.json, tasks.yaml
finalize_day_agent_context(c) ==
  /\ pending[c].pc = "agent_context"
  /\ agent_context' = generate_agent_context(state, analytics, tasks, today)
  /\ pending' = [pending EXCEPT ![c].pc = "draft"]
  /\ UNCHANGED <<today, draft, state, reflections, tasks, analytics, plans,
                 tui, ret, crashes, counted, finalized, aux>>

\* step 10 and the return value
finalize_day_clear_draft(c) ==
  /\ pending[c].pc = "draft"
  /\ draft' = ClearedDraft(today)
  /\ ret' = Ret("finalize_day", "returned", TRUE, "", FALSE, CallerResult(c).rating,
                pending[c].state.streak, pending[c].task_updates, {})
  /\ pending' = [pending EXCEPT ![c].pc = "done", ![c].result = ret']
  /\ finalized' = finalized \cup {today}
  /\ UNCHANGED <<today, state, reflections, tasks, analytics, agent_context, plans,
                 tui, crashes, counted, aux>>

NextRaceFinalize ==
  \/ \E c \in Callers : finalize_day_load(c)
  \/ \E c \in Callers : finalize_day_prepend(c)
  \/ \E c \in Callers : finalize_day_write_state(c)
  \/ \E c \in Callers : finalize_day_load_tasks(c)
  \/ \E c \in Callers : finalize_day_save_tasks(c)
  \/ \E c \in Callers : finalize_day_resave_state(c)
  \/ \E c \in Callers : finalize_day_analytics(c)
  \/ \E c \in Callers : finalize_day_agent_context(c)
  \/ \E c \in Callers : finalize_day_clear_draft(c)

SpecRaceFinalize == InitRaceFinalize /\ [][NextRaceFinalize]_vars

\* both calls have returned, and the one that ran the pipeline (every call
\* that did, when both did) held raw draft d
BothReturned == \A c \in Callers : pending[c].pc = "done"
RanPipeline(c) == pending[c].result.ok /\ ~pending[c].result.already_finalized

\* tasks.yaml after the progress of draft d's done items was applied once
ProgressAppliedOnce(d) ==
  LET t == task_stage_reset(d.items, InitialTasks, DefaultState.week_start_date, FirstDay)
  IN IF t.changed THEN t.tasks ELSE InitialTasks

\* C38: when two finalize_day calls for the same day interleave, the day is
\* still finalized once: reflections.md gains exactly one entry for today,
\* the streak increases by at most 1, and each done item's progress is
\* applied to tasks.yaml exactly once.
C38_InterleavedFinalizeOnce ==
  BothReturned =>
    /\ EntriesFor(today) = 1
    /\ state.streak <= DefaultState.streak + 1
    /\ \A c \in Callers : RanPipeline(c) => tasks = ProgressAppliedOnce(pending[c].raw_draft)

\* ---------------------------------------------------------------------
\* stop_session next to another writer of tasks.yaml
\* ---------------------------------------------------------------------
\* Caller 1 stops the focus session; caller 2 is a finalize_day call or a
\* request to the task API.  Every one of them loads tasks.yaml, changes
\* the TasksFile in memory and saves it; nothing keeps the other's load and
\* save from falling in between.

\* the other writers: finalize_day, POST /api/tasks, PUT and DELETE
\* /api/tasks/{task_id}
NumWriters == 4
WriterArgs(w) ==
  CASE w = 1 -> <<"finalize_day", "", <<>>>>
    [] w = 2 -> <<"api_create_task", "",
                  [id |-> "notes", title |-> <<"N">>, type |-> "open_ended"]>>
    [] w = 3 -> <<"api_update_task_rest", "work", [priority |-> 3]>>
    [] OTHER -> <<"api_delete_task", "paper", <<>>>>

\* the session being stopped, started at second 0 of the clock
SessionTasks == {"paper", "work"}

InitRaceTasks ==
  /\ today = FirstDay
  /\ draft \in { Draft(FirstDay, "commit", <<Item("line-1", LPaper, TRUE, <<>>)>>, <<>>),
                 Draft(FirstDay, "commit", <<Item("line-1", LWeekly, TRUE, <<>>)>>, <<>>) }
  /\ state = DefaultState
  /\ reflections = <<>>
  /\ tasks = InitialTasks
  /\ analytics = NoAnalytics
  /\ agent_context = NoAgentContext
  /\ plan = NoFile
  /\ plan_prev = NoFile
  /\ tui = NoTui
  /\ ret = NoCall
  /\ crashes = 0
  /\ \E w \in 1..NumWriters :
       pending = [c \in Callers |->
                    IF c = 1
                    THEN Caller("stop_session", <<FALSE, "">>, NoDraft, DefaultState,
                                InitialTasks, <<>>, NoCall)
                    ELSE Caller(IF w = 1 THEN "start" ELSE "task_api", WriterArgs(w),
                                NoDraft, DefaultState, InitialTasks, <<>>, NoCall)]
  /\ counted = {}
  /\ finalized = {}
  /\ \E task_id \in SessionTasks :
       focus = start_session(NoFocus, task_id, <<>>, 25, 0).state
  /\ now = MaxClock
  /\ profile = DefaultProfile
  /\ schedule = NoSchedule

\* stop_session up to _save_focus_state: the session goes to the history
stop_session_save_focus(c) ==
  /\ pending[c].pc = "stop_session"
  /\ focus' = stop_session(focus, pending[c].args[1], pending[c].args[2], now).state
  /\ ret' = FocusRet("stop_session",
                     stop_session(focus, pending[c].args[1], pending[c].args[2], now).error,
                     pending[c].args,
                     IF focus.active_session = <<>> THEN <<>>
                     ELSE <<focus'.history[Len(focus'.history)]>>)
  /\ pending' = [pending EXCEPT
                   ![c].pc = IF /\ focus.active_session # <<>>
                                /\ ret'.session[1].elapsed_minutes > 0
                             THEN "stop_load_tasks" ELSE "done",
                   ![c].result = ret']
  /\ UNCHANGED <<daily, tasks, now, profile, schedule>>

\* stop_session, auto-log: tasks_file = load_tasks(root)
stop_session_load_tasks(c) ==
  /\ pending[c].pc = "stop_load_tasks"
  /\ pending' = [pending EXCEPT
                   ![c].pc = IF find_task(tasks, pending[c].result.session[1].task_id) # 0
                             THEN "stop_save_tasks" ELSE "done",
                   ![c].tasks_file = tasks]
  /\ UNCHANGED <<daily, tasks, ret, focus, now, profile, schedule>>

\* stop_session, auto-log: update_task_progress and save_tasks
stop_session_save_tasks(c) ==
  /\ pending[c].pc = "stop_save_tasks"
  /\ tasks' = log_task_progress(pending[c].tasks_file, pending[c].result.session[1])
  /\ pending' = [pending EXCEPT ![c].pc = "done"]
  /\ UNCHANGED <<daily, ret, focus, now, profile, schedule>>

\* a task API handler: tasks_file = load_tasks(root)
task_api_load(c) ==
  /\ pending[c].pc = "task_api"
  /\ pending' = [pending EXCEPT ![c].pc = "task_api_save", ![c].tasks_file = tasks]
  /\ UNCHANGED <<daily, tasks, ret, focus, now, profile, schedule>>

\* what a task API handler makes of the TasksFile it loaded
task_api_result(args, tasks_file) ==
  CASE args[1] = "api_create_task" -> create_task(tasks_file, args[3])
    [] args[1] = "api_update_task_rest" -> update_task(tasks_file, args[2], args[3])
    [] OTHER ->
         [errors |-> IF delete_task(tasks_file, args[2], TRUE).deleted
                     THEN {} ELSE {"Task not found"},
          tasks_file |-> delete_task(tasks_file, args[2], TRUE).tasks_file]

\* a task API handler: the change in memory, and save_tasks unless the
\* request is rejected
task_api_save(c) ==
  /\ pending[c].pc = "task_api_save"
  /\ tasks' = IF task_api_result(pending[c].args, pending[c].tasks_file).errors = {}
              THEN TasksFileRoundTrip(
                     task_api_result(pending[c].args, pending[c].tasks_file).tasks_file)
              ELSE tasks
  /\ ret' = TaskRet(pending[c].args[1],
                    task_api_result(pending[c].args, pending[c].tasks_file).errors)
  /\ pending' = [pending EXCEPT ![c].pc = "done", ![c].result = ret']
  /\ UNCHANGED <<daily, focus, now, profile, schedule>>

NextRaceTasks ==
  \/ \E c \in Callers : stop_session_save_focus(c)
  \/ \E c \in Callers : stop_session_load_tasks(c)
  \/ \E c \in Callers : stop_session_save_tasks(c)
  \/ \E c \in Callers : task_api_load(c)
  \/ \E c \in Callers : task_api_save(c)
  \/ NextRaceFinalize

SpecRaceTasks == InitRaceTasks /\ [][NextRaceTasks]_vars

\* tasks.yaml after stop_session's auto-log alone, and after the other
\* writer alone, on a tasks.yaml holding tf
AutoLogged(tf) == log_task_progress(tf, pending[1].result.session[1])
OtherWriterApplied(tf) ==
  IF pending[2].args[1] = "finalize_day"
  THEN LET t == task_stage_reset(pending[2].raw_draft.items, tf,
                                 DefaultState.week_start_date, today)
       IN IF t.changed THEN t.tasks ELSE tf
  ELSE IF task_api_result(pending[2].args, tf).errors = {}
  THEN TasksFileRoundTrip(task_api_result(pending[2].args, tf).tasks_file)
  ELSE tf

\* C39: updates to tasks.yaml are never lost: when stop_session's
\* auto-logged progress runs concurrently with another tasks.yaml writer
\* (finalize_day's task-progress stage, or a create/update/delete through
\* the API), the final tasks.yaml reflects the effects of both operations,
\* i.e. it is what the two operations leave when run one after the other.
C39_NoLostTaskUpdate ==
  BothReturned =>
    \/ tasks = OtherWriterApplied(AutoLogged(InitialTasks))
    \/ tasks = AutoLogged(OtherWriterApplied(InitialTasks))

\* ---------------------------------------------------------------------
\* two start_session calls in flight
\* ---------------------------------------------------------------------
\* start_session loads focus.json, raises when a session is active, and
\* otherwise saves the state it loaded with the new session; the caller's
\* `state` is the FocusState it loaded.
StartArgs(c) == IF c = 1 THEN {"paper", "work"} ELSE {"work", "maint"}

InitRaceFocus ==
  /\ today = FirstDay
  /\ draft = NoDraft
  /\ state = DefaultState
  /\ reflections = <<>>
  /\ tasks = InitialTasks
  /\ analytics = NoAnalytics
  /\ agent_context = NoAgentContext
  /\ plan = NoFile
  /\ plan_prev = NoFile
  /\ tui = NoTui
  /\ ret = NoCall
  /\ crashes = 0
  /\ \E a \in StartArgs(1), b \in StartArgs(2) :
       pending = [c \in Callers |->
                    Caller("start_session", <<IF c = 1 THEN a ELSE b, <<>>, 25>>,
                           NoDraft, NoFocus, InitialTasks, <<>>, NoCall)]
  /\ counted = {}
  /\ finalized = {}
  /\ focus = NoFocus
  /\ now = 0
  /\ profile = DefaultProfile
  /\ schedule = NoSchedule

\* start_session: state = _load_focus_state(root), and the check
start_session_load(c) ==
  /\ pending[c].pc = "start_session"
  /\ IF focus.active_session # <<>>
     THEN /\ ret' = FocusRet("start_session",
                             start_session(focus, pending[c].args[1], pending[c].args[2],
                                           pending[c].args[3], now).error,
                             pending[c].args, <<>>)
          /\ pending' = [pending EXCEPT ![c].pc = "done", ![c].state = focus,
                                        ![c].result = ret']
     ELSE /\ pending' = [pending EXCEPT ![c].pc = "start_save", ![c].state = focus]
          /\ UNCHANGED ret
  /\ UNCHANGED <<daily, tasks, focus, now, profile, schedule>>

\* start_session: the new session is put into the loaded state, which is
\* saved, and the session is returned
start_session_save(c) ==
  /\ pending[c].pc = "start_save"
  /\ focus' = start_session(pending[c].state, pending[c].args[1], pending[c].args[2],
                            pending[c].args[3], now).state
  /\ ret' = FocusRet("start_session", "", pending[c].args, focus'.active_session)
  /\ pending' = [pending EXCEPT ![c].pc = "done", ![c].result = ret']
  /\ UNCHANGED <<daily, tasks, now, profile, schedule>>

NextRaceFocus ==
  \/ \E c \in Callers : start_session_load(c)
  \/ \E c \in Callers : start_session_save(c)
  \/ Tick

SpecRaceFocus == InitRaceFocus /\ [][NextRaceFocus]_vars

\* C40: of two start_session calls that interleave from the idle state, at
\* most one returns a session and the other fails with the already-active
\* error; the session returned to a successful caller is the one stored as
\* activeSession in focus.json.
C40_OneStartWins ==
  BothReturned =>
    /\ Cardinality({c \in Callers : pending[c].result.ok}) <= 1
    /\ \A c \in Callers :
         IF pending[c].result.ok
         THEN pending[c].result.session = focus.active_session
         ELSE pending[c].result.reason
                = "A focus session is already active. Stop it first."

====
